---- MODULE Spec2Model ----
(***************************************************************************)
(* Model of the WhatsApp bridge's message store (MessageStore), its event  *)
(* handlers (handleMessage, handleHistorySync) and its query engine        *)
(* (ListMessages, GetMessageContext, GetChat, GetMediaInfo).                *)
(*                                                                         *)
(* The two SQL tables are sets of rows.  A statement is modelled by what   *)
(* the engine does with it: INSERT OR REPLACE deletes the conflicting row  *)
(* and inserts the new one, INSERT .. ON CONFLICT DO UPDATE assigns the    *)
(* listed columns of the conflicting row, a query whose text the engine    *)
(* rejects returns an error.  Texts (message content, search patterns) are *)
(* sequences of one-character strings, timestamps are whole seconds.       *)
(***************************************************************************)
EXTENDS Integers, Sequences, FiniteSets, TLC

VARIABLES isPostgres, chats, messages, now, ret, pending

vars == <<isPostgres, chats, messages, now, ret, pending>>

----------------------------------------------------------------------------
(* Bounds of the model *)

\* largest message timestamp (seconds) an event carries
MaxTime == 3
\* largest reading of the wall clock (seconds) used by time.Now()
MaxNow == 2
\* largest number of rows of the messages table the model lets the store grow to
MaxRows == 2
\* largest number of messages in one history-sync conversation
MaxBatch == 2
\* largest limit, page, before-count and after-count a query is called with
MaxCount == 2
\* largest number of rows of the messages table the queries are run against
MaxStored == 3

Times == 1..MaxTime
Counts == 0..MaxCount

----------------------------------------------------------------------------
(* Addresses, identifiers and texts *)

GroupJID == [User |-> "g1", Server |-> "g.us"]
UserJID == [User |-> "u1", Server |-> "s.whatsapp.net"]
ChatJIDs == {GroupJID, UserJID}

MsgIDs == {"m1", "m2", "m3"}

\* the empty Go string
Empty == <<>>

\* a []byte that is nil
NoBytes == ""

\* the filename column: a fixed part, a "20060102_150405" time stamp (0: none)
\* and an extension, concatenated by the code
Filename(base, stamp, ext) == [base |-> base, stamp |-> stamp, ext |-> ext]
NoFilename == Filename("", 0, "")

----------------------------------------------------------------------------
(* The tables created by NewMessageStore *)

\* chats (jid PRIMARY KEY, name, last_message_time)
ChatRow(jid, name, lastMessageTime) ==
    [jid |-> jid, name |-> name, last_message_time |-> lastMessageTime]

\* messages (id, chat_jid, ..., PRIMARY KEY (id, chat_jid)), from the
\* arguments of StoreMessage
MessageRow(m) ==
    [id |-> m.id, chat_jid |-> m.chatJID, sender |-> m.sender,
     content |-> m.content, timestamp |-> m.timestamp,
     is_from_me |-> m.isFromMe, media_type |-> m.mediaType,
     filename |-> m.filename, url |-> m.url, media_key |-> m.mediaKey,
     file_sha256 |-> m.fileSHA256, file_enc_sha256 |-> m.fileEncSHA256,
     file_length |-> m.fileLength]

\* FOREIGN KEY (chat_jid) REFERENCES chats(jid), enforced by both engines
\* (SQLite is opened with _foreign_keys=on)
ForeignKeyOK(chs, chatJID) == \E c \in chs : c.jid = chatJID

----------------------------------------------------------------------------
(* MessageStore.StoreChat *)

\* SQLite: INSERT OR REPLACE INTO chats
InsertOrReplaceChat(chs, row) ==
    {c \in chs : c.jid # row.jid} \cup {row}

\* faulty variant: a stored name is kept when the new name is empty
InsertOnConflictKeepName(chs, row) ==
    IF \E c \in chs : c.jid = row.jid
    THEN {IF c.jid = row.jid
          THEN [c EXCEPT !.name = IF row.name = "" THEN c.name ELSE row.name,
                         !.last_message_time = row.last_message_time]
          ELSE c : c \in chs}
    ELSE chs \cup {row}

\* Postgres: INSERT INTO chats ... ON CONFLICT (jid) DO UPDATE SET
\* name = EXCLUDED.name, last_message_time = EXCLUDED.last_message_time
InsertOnConflictUpdateChat(chs, row) ==
    IF \E c \in chs : c.jid = row.jid
    THEN {IF c.jid = row.jid
          THEN [c EXCEPT !.name = row.name,
                         !.last_message_time = row.last_message_time]
          ELSE c : c \in chs}
    ELSE chs \cup {row}

StoreChat(chs, jid, name, lastMessageTime) ==
    IF isPostgres
    THEN InsertOnConflictUpdateChat(chs, ChatRow(jid, name, lastMessageTime))
    ELSE InsertOrReplaceChat(chs, ChatRow(jid, name, lastMessageTime))

----------------------------------------------------------------------------
(* MessageStore.StoreMessage *)

SameKey(r, row) == r.id = row.id /\ r.chat_jid = row.chat_jid

\* faulty variant: the conflicting row is not deleted
InsertKeepingMessage(msgs, row) == msgs \cup {row}

\* SQLite: INSERT OR REPLACE INTO messages
InsertOrReplaceMessage(msgs, row) ==
    {r \in msgs : ~SameKey(r, row)} \cup {row}

\* Postgres: INSERT INTO messages ... ON CONFLICT(id, chat_jid) DO UPDATE SET
\* every column but id
InsertOnConflictUpdateMessage(msgs, row) ==
    IF \E r \in msgs : SameKey(r, row)
    THEN {IF SameKey(r, row)
          THEN [r EXCEPT !.chat_jid = row.chat_jid,
                         !.sender = row.sender,
                         !.content = row.content,
                         !.timestamp = row.timestamp,
                         !.is_from_me = row.is_from_me,
                         !.media_type = row.media_type,
                         !.filename = row.filename,
                         !.url = row.url,
                         !.media_key = row.media_key,
                         !.file_sha256 = row.file_sha256,
                         !.file_enc_sha256 = row.file_enc_sha256,
                         !.file_length = row.file_length]
          ELSE r : r \in msgs}
    ELSE msgs \cup {row}

\* faulty variant: no early return
NeverSkipped(m) == FALSE

\* the early return of StoreMessage
IsSkipped(m) == m.content = Empty /\ m.mediaType = ""

\* the tables after the call and the error it returns ("nil": success)
StoreMessage(chs, msgs, m) ==
    IF IsSkipped(m)
    THEN [messages |-> msgs, err |-> "nil"]
    ELSE IF ~ForeignKeyOK(chs, m.chatJID)
    THEN [messages |-> msgs, err |-> "constraint"]
    ELSE IF ~isPostgres
    THEN [messages |-> InsertOrReplaceMessage(msgs, MessageRow(m)), err |-> "nil"]
    ELSE [messages |-> InsertOnConflictUpdateMessage(msgs, MessageRow(m)),
          err |-> "nil"]

----------------------------------------------------------------------------
(* MessageStore.StoreMediaInfo and MessageStore.GetMediaInfo *)

\* faulty variant: the update matches on the id alone
StoreMediaInfoByID(msgs, id, chatJID, url, mediaKey, fileSHA256, fileEncSHA256, fileLength) ==
    {IF r.id = id
     THEN [r EXCEPT !.url = url, !.media_key = mediaKey,
                    !.file_sha256 = fileSHA256,
                    !.file_enc_sha256 = fileEncSHA256,
                    !.file_length = fileLength]
     ELSE r : r \in msgs}

\* UPDATE messages SET url, media_key, file_sha256, file_enc_sha256,
\* file_length WHERE id = .. AND chat_jid = ..
StoreMediaInfo(msgs, id, chatJID, url, mediaKey, fileSHA256, fileEncSHA256, fileLength) ==
    {IF r.id = id /\ r.chat_jid = chatJID
     THEN [r EXCEPT !.url = url, !.media_key = mediaKey,
                    !.file_sha256 = fileSHA256,
                    !.file_enc_sha256 = fileEncSHA256,
                    !.file_length = fileLength]
     ELSE r : r \in msgs}

\* what Scan leaves in the result variables when QueryRow finds no row
NoMediaInfo ==
    [mediaType |-> "", filename |-> NoFilename, url |-> "",
     mediaKey |-> NoBytes, fileSHA256 |-> NoBytes, fileEncSHA256 |-> NoBytes,
     fileLength |-> 0, err |-> "ErrNoRows"]

\* faulty variant: the lookup matches on the id alone
GetMediaInfoByID(msgs, id, chatJID) ==
    LET found == {r \in msgs : r.id = id}
    IN  IF found = {}
        THEN {NoMediaInfo}
        ELSE {[mediaType |-> r.media_type, filename |-> r.filename,
               url |-> r.url, mediaKey |-> r.media_key,
               fileSHA256 |-> r.file_sha256,
               fileEncSHA256 |-> r.file_enc_sha256,
               fileLength |-> r.file_length, err |-> "nil"] : r \in found}

\* the results QueryRow(..).Scan(..) can give: the columns of a matching row,
\* or sql.ErrNoRows
GetMediaInfo(msgs, id, chatJID) ==
    LET found == {r \in msgs : r.id = id /\ r.chat_jid = chatJID}
    IN  IF found = {}
        THEN {NoMediaInfo}
        ELSE {[mediaType |-> r.media_type, filename |-> r.filename,
               url |-> r.url, mediaKey |-> r.media_key,
               fileSHA256 |-> r.file_sha256,
               fileEncSHA256 |-> r.file_enc_sha256,
               fileLength |-> r.file_length, err |-> "nil"] : r \in found}

\* downloadMedia: localPath is "store/" + chatJID + "/" + filename, with the
\* filename GetMediaInfo returns for (messageID, chatJID); a file found at
\* that path is returned as the message's media
LocalPath(chatJID, filename) == [dir |-> chatJID, file |-> filename]

----------------------------------------------------------------------------
(* The protocol messages (waE2E.Message) the handlers read *)

\* a media sub-message (ImageMessage, VideoMessage, ...) that is nil
NoPart ==
    [present |-> FALSE, URL |-> "", MediaKey |-> NoBytes,
     FileSHA256 |-> NoBytes, FileEncSHA256 |-> NoBytes, FileLength |-> 0,
     FileName |-> ""]

\* a media sub-message with its download descriptor
Part(tag, length, fileName) ==
    [present |-> TRUE, URL |-> tag, MediaKey |-> tag, FileSHA256 |-> tag,
     FileEncSHA256 |-> tag, FileLength |-> length, FileName |-> fileName]

\* ExtendedTextMessage: nil, or present with its Text
NoExt == [present |-> FALSE, Text |-> Empty]
Ext(text) == [present |-> TRUE, Text |-> text]

ProtoMessage(conversation, ext, image, video, audio, document) ==
    [isNil |-> FALSE, Conversation |-> conversation,
     ExtendedTextMessage |-> ext, ImageMessage |-> image,
     VideoMessage |-> video, AudioMessage |-> audio,
     DocumentMessage |-> document]

NilMessage ==
    [isNil |-> TRUE, Conversation |-> Empty, ExtendedTextMessage |-> NoExt,
     ImageMessage |-> NoPart, VideoMessage |-> NoPart,
     AudioMessage |-> NoPart, DocumentMessage |-> NoPart]

extractTextContent(msg) ==
    IF msg.isNil THEN Empty
    ELSE IF msg.Conversation # Empty THEN msg.Conversation
    ELSE IF msg.ExtendedTextMessage.present THEN msg.ExtendedTextMessage.Text
    ELSE Empty

MediaInfo(mediaType, filename, part) ==
    [mediaType |-> mediaType, filename |-> filename, url |-> part.URL,
     mediaKey |-> part.MediaKey, fileSHA256 |-> part.FileSHA256,
     fileEncSHA256 |-> part.FileEncSHA256, fileLength |-> part.FileLength]

\* clock: the reading of time.Now(), formatted to the second
extractMediaInfo(msg, clock) ==
    IF msg.isNil THEN MediaInfo("", NoFilename, NoPart)
    ELSE IF msg.ImageMessage.present
    THEN MediaInfo("image", Filename("image_", clock, ".jpg"), msg.ImageMessage)
    ELSE IF msg.VideoMessage.present
    THEN MediaInfo("video", Filename("video_", clock, ".mp4"), msg.VideoMessage)
    ELSE IF msg.AudioMessage.present
    THEN MediaInfo("audio", Filename("audio_", clock, ".ogg"), msg.AudioMessage)
    ELSE IF msg.DocumentMessage.present
    THEN MediaInfo("document",
                   IF msg.DocumentMessage.FileName = ""
                   THEN Filename("document_", clock, "")
                   ELSE Filename(msg.DocumentMessage.FileName, 0, ""),
                   msg.DocumentMessage)
    ELSE MediaInfo("", NoFilename, NoPart)

----------------------------------------------------------------------------
(* GetChatName *)

\* fmt.Sprintf("Group %s", jid.User)
GroupLabel(user) == IF user = "g1" THEN "Group g1" ELSE "Group u1"

\* the conversation argument that is nil (handleMessage passes nil)
NoConversation == [isNil |-> TRUE, DisplayName |-> "", Name |-> ""]

\* "SELECT name FROM chats WHERE jid = ?" is written with the SQLite
\* placeholder in both dialects: Postgres rejects the text, Scan returns the
\* error and existingName stays "".  SQLite: the stored name, "" when no row.
ExistingName(chs, chatJID) ==
    IF isPostgres THEN ""
    ELSE IF \E c \in chs : c.jid = chatJID
    THEN (CHOOSE c \in chs : c.jid = chatJID).name
    ELSE ""

\* client: what the protocol client answers: GroupInfoName (GetGroupInfo,
\* "" when it fails or has no name), ContactFullName (GetContact, likewise)
GetChatName(chs, jid, conversation, sender, client) ==
    IF ExistingName(chs, jid) # "" THEN ExistingName(chs, jid)
    ELSE IF jid.Server = "g.us"
    THEN LET name == IF conversation.isNil THEN ""
                     ELSE IF conversation.DisplayName # ""
                     THEN conversation.DisplayName
                     ELSE conversation.Name
         IN  IF name # "" THEN name
             ELSE IF client.GroupInfoName # "" THEN client.GroupInfoName
             ELSE GroupLabel(jid.User)
    ELSE IF client.ContactFullName # "" THEN client.ContactFullName
    ELSE IF sender # "" THEN sender
    ELSE jid.User

----------------------------------------------------------------------------
(* handleMessage: a live message event *)

StoreMessageArgs(id, chatJID, sender, content, timestamp, isFromMe, media) ==
    [id |-> id, chatJID |-> chatJID, sender |-> sender, content |-> content,
     timestamp |-> timestamp, isFromMe |-> isFromMe,
     mediaType |-> media.mediaType, filename |-> media.filename,
     url |-> media.url, mediaKey |-> media.mediaKey,
     fileSHA256 |-> media.fileSHA256, fileEncSHA256 |-> media.fileEncSHA256,
     fileLength |-> media.fileLength]

\* st: the two tables; info: msg.Info; msg: msg.Message
handleMessage(st, info, msg, client, clock) ==
    LET name == GetChatName(st.chats, info.Chat, NoConversation, info.Sender,
                            client)
        chs == StoreChat(st.chats, info.Chat, name, info.Timestamp)
        content == extractTextContent(msg)
        media == extractMediaInfo(msg, clock)
    IN  IF content = Empty /\ media.mediaType = ""
        THEN [chats |-> chs, messages |-> st.messages]
        ELSE [chats |-> chs,
              messages |-> StoreMessage(chs, st.messages,
                               StoreMessageArgs(info.ID, info.Chat, info.Sender,
                                   content, info.Timestamp, info.IsFromMe,
                                   media)).messages]

----------------------------------------------------------------------------
(* handleHistorySync: a history-sync event *)

\* one entry of conversation.Messages.  isNil: the entry or its Message
\* (the WebMessageInfo) is nil; hasKey: Key is not nil; FromMe, Participant
\* and ID are the key's fields (nil pointers read as FALSE and "");
\* MessageTimestamp 0: no timestamp; Message: the waE2E.Message, or nil
HistoryMessage(hasKey, fromMe, participant, id, timestamp, msg) ==
    [isNil |-> FALSE, hasKey |-> hasKey, FromMe |-> fromMe,
     Participant |-> participant, ID |-> id, MessageTimestamp |-> timestamp,
     Message |-> msg]

NilHistoryMessage ==
    [isNil |-> TRUE, hasKey |-> FALSE, FromMe |-> FALSE, Participant |-> "",
     ID |-> "", MessageTimestamp |-> 0, Message |-> NilMessage]

\* hasID: conversation.ID is not nil and ParseJID accepts it
Conversation(hasID, jid, displayName, name, msgs) ==
    [isNil |-> FALSE, hasID |-> hasID, ID |-> jid,
     DisplayName |-> displayName, Name |-> name, Messages |-> msgs]

\* the text of a history message
historyContent(msg) ==
    IF msg.isNil THEN Empty
    ELSE IF msg.Conversation # Empty THEN msg.Conversation
    ELSE IF msg.ExtendedTextMessage.present THEN msg.ExtendedTextMessage.Text
    ELSE Empty

\* the sender of a history message
historySender(jid, hm, client) ==
    IF hm.hasKey
    THEN IF ~hm.FromMe /\ hm.Participant # "" THEN hm.Participant
         ELSE IF hm.FromMe THEN client.OwnUser
         ELSE jid.User
    ELSE jid.User

\* the body of the loop over conversation.Messages
syncMessage(st, jid, hm, client, clock) ==
    IF hm.isNil THEN st
    ELSE LET content == historyContent(hm.Message)
             media == IF hm.Message.isNil
                      THEN MediaInfo("", NoFilename, NoPart)
                      ELSE extractMediaInfo(hm.Message, clock)
         IN  IF content = Empty /\ media.mediaType = "" THEN st
             ELSE IF hm.MessageTimestamp = 0 THEN st
             ELSE [st EXCEPT !.messages =
                      StoreMessage(st.chats, st.messages,
                          StoreMessageArgs(IF hm.hasKey THEN hm.ID ELSE "", jid,
                              historySender(jid, hm, client), content,
                              hm.MessageTimestamp,
                              hm.hasKey /\ hm.FromMe, media)).messages]

RECURSIVE syncMessages(_, _, _, _, _)
syncMessages(st, jid, hms, client, clock) ==
    IF hms = <<>> THEN st
    ELSE syncMessages(syncMessage(st, jid, Head(hms), client, clock), jid,
                      Tail(hms), client, clock)

\* the body of the loop over historySync.Data.Conversations
syncConversation(st, conversation, client, clock) ==
    IF ~conversation.hasID THEN st
    ELSE LET jid == conversation.ID
             name == GetChatName(st.chats, jid, conversation, "", client)
             hms == conversation.Messages
         IN  IF Len(hms) = 0 THEN st
             ELSE IF hms[1].isNil THEN st
             ELSE IF hms[1].MessageTimestamp = 0 THEN st
             ELSE syncMessages(
                      [st EXCEPT !.chats =
                          StoreChat(st.chats, jid, name,
                                    hms[1].MessageTimestamp)],
                      jid, hms, client, clock)

RECURSIVE handleHistorySync(_, _, _, _)
handleHistorySync(st, conversations, client, clock) ==
    IF conversations = <<>> THEN st
    ELSE handleHistorySync(
             syncConversation(st, Head(conversations), client, clock),
             Tail(conversations), client, clock)

----------------------------------------------------------------------------
(* Query results *)

\* ORDER BY m.timestamp DESC and ORDER BY m.timestamp ASC
TimestampDesc == "DESC"
TimestampAsc == "ASC"

\* row a may come before row b under the direction
InOrder(direction, a, b) ==
    IF direction = TimestampDesc
    THEN a.timestamp >= b.timestamp
    ELSE a.timestamp <= b.timestamp

\* ORDER BY: the orders in which the engine can return the rows of S when it
\* sorts them by timestamp; rows with equal timestamps come in any order
OrderBy(S, direction) ==
    {f \in [1..Cardinality(S) -> S] :
        /\ \A i, j \in 1..Cardinality(S) : i # j => f[i] # f[j]
        /\ \A i, j \in 1..Cardinality(S) :
              i < j => InOrder(direction, f[i], f[j])}

\* LIMIT n OFFSET k applied to the ordered rows
LimitOffset(rows, n, k) ==
    SubSeq(rows, k + 1, IF k + n < Len(rows) THEN k + n ELSE Len(rows))

\* messages m JOIN chats c ON m.chat_jid = c.jid: the name of the chat of m
JoinedChats(chs, m) == {c \in chs : c.jid = m.chat_jid}

\* the struct built from a scanned row of the join
MessageInteraction(m, c) ==
    [Timestamp |-> m.timestamp, Sender |-> m.sender, Content |-> m.content,
     IsFromMe |-> m.is_from_me, ChatJID |-> c.jid, ID |-> m.id,
     ChatName |-> c.name, MediaType |-> m.media_type]

\* the rows of the join for the message rows in order
RECURSIVE ScanRows(_, _)
ScanRows(chs, rows) ==
    IF rows = <<>> THEN <<>>
    ELSE IF JoinedChats(chs, Head(rows)) = {} THEN ScanRows(chs, Tail(rows))
    ELSE <<MessageInteraction(Head(rows),
                              CHOOSE c \in chs : c.jid = Head(rows).chat_jid)>>
         \o ScanRows(chs, Tail(rows))

----------------------------------------------------------------------------
(* MessageStore.GetChat *)

NoChat ==
    [isNil |-> TRUE, JID |-> [User |-> "", Server |-> ""], Name |-> "",
     LastMessageTime |-> 0, LastMessage |-> Empty, LastSender |-> "",
     LastIsFromMe |-> FALSE]

\* a row of chats c LEFT JOIN messages m ON c.jid = m.chat_jid AND
\* c.last_message_time = m.timestamp, scanned into a Chat
ChatWithLast(c, m) ==
    [isNil |-> FALSE, JID |-> c.jid, Name |-> c.name,
     LastMessageTime |-> c.last_message_time, LastMessage |-> m.content,
     LastSender |-> m.sender, LastIsFromMe |-> m.is_from_me]

\* the row of the LEFT JOIN for a chat no message matches: NULL columns
ChatAlone(c) ==
    [isNil |-> FALSE, JID |-> c.jid, Name |-> c.name,
     LastMessageTime |-> c.last_message_time, LastMessage |-> Empty,
     LastSender |-> "", LastIsFromMe |-> FALSE]

LeftJoinLast(msgs, c) ==
    LET last == {m \in msgs : m.chat_jid = c.jid
                              /\ m.timestamp = c.last_message_time}
    IN  IF last = {} THEN {ChatAlone(c)}
        ELSE {ChatWithLast(c, m) : m \in last}

\* the results GetChat can return: QueryRow takes the first row of the join.
\* Without includeLastMessage the SELECT names m.content with no table m in
\* its FROM clause, and the engine rejects it.
GetChat(chs, msgs, chatJID, includeLastMessage) ==
    IF ~includeLastMessage THEN {[chat |-> NoChat, err |-> "sql"]}
    ELSE LET rows == UNION {LeftJoinLast(msgs, c) :
                               c \in {c \in chs : c.jid = chatJID}}
         IN  IF rows = {} THEN {[chat |-> NoChat, err |-> "nil"]}
             ELSE {[chat |-> r, err |-> "nil"] : r \in rows}

----------------------------------------------------------------------------
(* MessageStore.GetMessageContext *)

\* MessageContext{}: what is returned with an error
NoInteraction ==
    [Timestamp |-> 0, Sender |-> "", Content |-> Empty, IsFromMe |-> FALSE,
     ChatJID |-> [User |-> "", Server |-> ""], ID |-> "", ChatName |-> "",
     MediaType |-> ""]
NoContext ==
    [Message |-> NoInteraction, Before |-> <<>>, After |-> <<>>,
     err |-> "not found"]

\* faulty variant: the bound is not strict
BeforeRowsInclusive(msgs, chatJid2, ts) ==
    {m \in msgs : m.chat_jid = chatJid2 /\ m.timestamp <= ts}

\* WHERE m.chat_jid = chatJid2 AND m.timestamp < ts
BeforeRows(msgs, chatJid2, ts) ==
    {m \in msgs : m.chat_jid = chatJid2 /\ m.timestamp < ts}

\* faulty variant: the bound is not strict
AfterRowsInclusive(msgs, chatJid2, ts) ==
    {m \in msgs : m.chat_jid = chatJid2 /\ m.timestamp >= ts}

\* WHERE m.chat_jid = chatJid2 AND m.timestamp > ts
AfterRows(msgs, chatJid2, ts) ==
    {m \in msgs : m.chat_jid = chatJid2 /\ m.timestamp > ts}

\* faulty variant: the target query has no condition on the id
TargetRowsAnyID(chs, msgs, messageID) ==
    {m \in msgs : JoinedChats(chs, m) # {}}

\* the target message query: WHERE m.id = messageID (the chat is not part of
\* the condition; QueryRow takes the first row)
TargetRows(chs, msgs, messageID) ==
    {m \in msgs : m.id = messageID /\ JoinedChats(chs, m) # {}}

\* the results GetMessageContext can return
GetMessageContext(chs, msgs, messageID, before, after) ==
    IF TargetRows(chs, msgs, messageID) = {} THEN {NoContext}
    ELSE {[Message |-> ScanRows(chs, <<t>>)[1],
           Before |-> ScanRows(chs, LimitOffset(b, before, 0)),
           After |-> ScanRows(chs, LimitOffset(a, after, 0)),
           err |-> "nil"] :
            <<t, b, a>> \in
              UNION {{t} \X OrderBy(BeforeRows(msgs, t.chat_jid, t.timestamp),
                                    TimestampDesc)
                         \X OrderBy(AfterRows(msgs, t.chat_jid, t.timestamp),
                                    TimestampAsc) :
                     t \in TargetRows(chs, msgs, messageID)}}

----------------------------------------------------------------------------
(* MessageStore.ListMessages *)

\* the text of a timestamp in RFC 3339, and a text that is none
RFC3339(t) == <<"T", t>>
BadTime == <<"x">>

\* faulty variant: every text is taken for a timestamp
ParseAnyTime(text) ==
    IF Len(text) = 2 /\ text[1] = "T"
    THEN [ok |-> TRUE, t |-> text[2]]
    ELSE [ok |-> TRUE, t |-> 0]

\* time.Parse(time.RFC3339, text)
ParseTime(text) ==
    IF Len(text) = 2 /\ text[1] = "T"
    THEN [ok |-> TRUE, t |-> text[2]]
    ELSE [ok |-> FALSE, t |-> 0]

\* LOWER(..) of one character
LowerChar(ch) == IF ch = "A" THEN "a" ELSE IF ch = "B" THEN "b" ELSE ch

Lower(text) == [i \in 1..Len(text) |-> LowerChar(text[i])]

\* text LIKE pattern: % matches any run of characters, _ any one character
RECURSIVE Like(_, _)
Like(text, pattern) ==
    IF pattern = <<>> THEN text = <<>>
    ELSE IF Head(pattern) = "%"
    THEN Like(text, Tail(pattern))
         \/ (text # <<>> /\ Like(Tail(text), pattern))
    ELSE /\ text # <<>>
         /\ (Head(pattern) = "_" \/ Head(pattern) = Head(text))
         /\ Like(Tail(text), Tail(pattern))

NoJID == [User |-> "", Server |-> ""]

\* faulty variant: the after bound is inclusive
WhereMessagesFromAfter(m, s) ==
    /\ s.After # Empty => m.timestamp >= ParseTime(s.After).t
    /\ s.Before # Empty => m.timestamp < ParseTime(s.Before).t
    /\ s.SenderPhoneNumber # "" => m.sender = s.SenderPhoneNumber
    /\ s.ChatJid # NoJID => m.chat_jid = s.ChatJid
    /\ s.Query # Empty =>
          Like(Lower(m.content), Lower(<<"%">> \o s.Query \o <<"%">>))

\* the WHERE clause ListMessages builds from the filters that are set
WhereMessages(m, s) ==
    /\ s.After # Empty => m.timestamp > ParseTime(s.After).t
    /\ s.Before # Empty => m.timestamp < ParseTime(s.Before).t
    /\ s.SenderPhoneNumber # "" => m.sender = s.SenderPhoneNumber
    /\ s.ChatJid # NoJID => m.chat_jid = s.ChatJid
    /\ s.Query # Empty =>
          Like(Lower(m.content), Lower(<<"%">> \o s.Query \o <<"%">>))

\* the windows of the matched messages, concatenated (IncludeContext)
RECURSIVE ExpandContext(_, _, _, _)
ExpandContext(chs, msgs, list, s) ==
    IF list = <<>> THEN {<<>>}
    ELSE {(IF ctx.err = "nil"
           THEN ctx.Before \o <<ctx.Message>> \o ctx.After
           ELSE <<>>) \o rest :
            ctx \in GetMessageContext(chs, msgs, Head(list).ID,
                                      s.ContextBefore, s.ContextAfter),
            rest \in ExpandContext(chs, msgs, Tail(list), s)}

\* the results ListMessages can return: the list handed to
\* FormatMessagesList, or an error
ListMessages(chs, msgs, s) ==
    IF s.After # Empty /\ ~ParseTime(s.After).ok
    THEN {[list |-> <<>>, err |-> "invalid after format"]}
    ELSE IF s.Before # Empty /\ ~ParseTime(s.Before).ok
    THEN {[list |-> <<>>, err |-> "invalid before format"]}
    ELSE LET matched == {m \in msgs : JoinedChats(chs, m) # {}
                                      /\ WhereMessages(m, s)}
             lists == {ScanRows(chs, LimitOffset(rows, s.Limit,
                                                 s.Page * s.Limit)) :
                          rows \in OrderBy(matched, TimestampDesc)}
         IN  IF s.IncludeContext
             THEN {[list |-> all, err |-> "nil"] :
                      all \in UNION {ExpandContext(chs, msgs, l, s) :
                                        l \in lists}}
             ELSE {[list |-> l, err |-> "nil"] : l \in lists}

----------------------------------------------------------------------------
(* MessageStore.GetContactChats and MessageStore.GetDirectChatByContact *)

\* the characters of the user parts, senders, servers and chat names the
\* model uses
Chars(str) ==
    CASE str = "u1" -> <<"u", "1">>
      [] str = "Alice" -> <<"A", "l", "i", "c", "e">>
      [] str = "Ab" -> <<"A", "b">>
      [] str = "g1" -> <<"g", "1">>
      [] str = "me" -> <<"m", "e">>
      [] str = "g.us" -> <<"g", ".", "u", "s">>
      [] str = "s.whatsapp.net" ->
            <<"s", ".", "w", "h", "a", "t", "s", "a", "p", "p", ".", "n",
              "e", "t">>
      [] OTHER -> <<>>

\* JID.String(): user@server, the text stored in chats.jid and
\* messages.chat_jid
JIDString(j) == Chars(j.User) \o <<"@">> \o Chars(j.Server)

\* chats c JOIN messages m ON c.jid = m.chat_jid WHERE m.sender = jid OR
\* c.jid = jid, under SELECT DISTINCT of the six selected columns
ContactChatRows(chs, msgs, jid) ==
    {ChatWithLast(pair[1], pair[2]) :
        pair \in {pr \in chs \X msgs :
                    /\ pr[1].jid = pr[2].chat_jid
                    /\ \/ Chars(pr[2].sender) = jid
                       \/ JIDString(pr[1].jid) = jid}}

\* ORDER BY c.last_message_time DESC; rows with equal times come in any order
OrderByLastMessageTime(S) ==
    {f \in [1..Cardinality(S) -> S] :
        /\ \A i, j \in 1..Cardinality(S) : i # j => f[i] # f[j]
        /\ \A i, j \in 1..Cardinality(S) :
              i < j => f[i].LastMessageTime >= f[j].LastMessageTime}

\* the results GetContactChats can return
GetContactChats(chs, msgs, jid, limit, page) ==
    {[chats |-> LimitOffset(rows, limit, page * limit), err |-> "nil"] :
        rows \in OrderByLastMessageTime(ContactChatRows(chs, msgs, jid))}

\* the results GetDirectChatByContact can return: the first row of the join
\* WHERE c.jid LIKE '%phone%' AND c.jid NOT LIKE '%@g.us'; Scan's error is
\* returned as it is, sql.ErrNoRows included
GetDirectChatByContact(chs, msgs, phone) ==
    LET found == {c \in chs :
                    /\ Like(JIDString(c.jid), <<"%">> \o phone \o <<"%">>)
                    /\ ~Like(JIDString(c.jid),
                             <<"%", "@", "g", ".", "u", "s">>)}
        rows == UNION {LeftJoinLast(msgs, c) : c \in found}
    IN  IF rows = {} THEN {[chat |-> NoChat, err |-> "ErrNoRows"]}
        ELSE {[chat |-> r, err |-> "nil"] : r \in rows}

\* the status the REST handlers of the point lookups answer with
LookupStatus(r) ==
    IF r.err # "nil" THEN 500
    ELSE IF r.chat.isNil THEN 404
    ELSE 200

----------------------------------------------------------------------------
(* MessageStore.SearchContacts *)

\* LIMIT 50
SearchLimit == 50

\* the characters of the texts that are sorted (the contact table, the names
\* of chats), in the order of their codes
Alphabet ==
    <<".", "0", "1", "2", "3", "4", "5", "6", "7", "8", "9", "@", "A", "a",
      "b", "c", "e", "g", "h", "i", "l", "n", "p", "s", "t", "u", "w">>

CharRank(ch) == CHOOSE i \in 1..Len(Alphabet) : Alphabet[i] = ch

\* the comparison of two texts that ORDER BY uses
RECURSIVE TextLess(_, _)
TextLess(a, b) ==
    IF b = <<>> THEN FALSE
    ELSE IF a = <<>> THEN TRUE
    ELSE IF Head(a) = Head(b) THEN TextLess(Tail(a), Tail(b))
    ELSE CharRank(Head(a)) < CharRank(Head(b))

\* ORDER BY first_name, their_jid
ContactLess(x, y) ==
    \/ TextLess(x.first_name, y.first_name)
    \/ x.first_name = y.first_name /\ TextLess(x.their_jid, y.their_jid)

\* the rows of S in the order of ORDER BY first_name, their_jid; the rows
\* are distinct, so no two of them compare equal
RECURSIVE OrderContacts(_)
OrderContacts(S) ==
    IF S = {} THEN <<>>
    ELSE LET x == CHOOSE r \in S : TRUE
             rest == OrderContacts(S \ {x})
         IN  SelectSeq(rest, LAMBDA y : ContactLess(y, x)) \o <<x>>
               \o SelectSeq(rest, LAMBDA y : ~ContactLess(y, x))

\* faulty variant: no address is taken for a group address
NeverGroupAddress(jid) == FALSE

\* their_jid LIKE '%@g.us'
IsGroupAddress(jid) == Like(jid, <<"%", "@", "g", ".", "u", "s">>)

\* WHERE (LOWER(first_name) LIKE LOWER('%query%') OR LOWER(their_jid) LIKE
\* LOWER('%query%')) AND their_jid NOT LIKE '%@g.us'
WhereContacts(r, query) ==
    /\ \/ Like(Lower(r.first_name), Lower(<<"%">> \o query \o <<"%">>))
       \/ Like(Lower(r.their_jid), Lower(<<"%">> \o query \o <<"%">>))
    /\ ~IsGroupAddress(r.their_jid)

\* strings.Split(jid, "@")[0]
RECURSIVE BeforeAt(_)
BeforeAt(text) ==
    IF text = <<>> \/ Head(text) = "@" THEN <<>>
    ELSE <<Head(text)>> \o BeforeAt(Tail(text))

\* the Contact built from a scanned row
ContactOf(r) ==
    [PhoneNumber |-> BeforeAt(r.their_jid), JID |-> r.their_jid,
     Name |-> r.first_name]

\* SearchContacts on the contact table that the protocol library keeps. The
\* SQLite message database is a file of its own that has no such table, so
\* there the query fails.
SearchContacts(table, query) ==
    IF ~isPostgres THEN [contacts |-> <<>>, err |-> "no such table"]
    ELSE LET rows == OrderContacts({[their_jid |-> r.their_jid,
                                     first_name |-> r.first_name] :
                                       r \in {x \in table :
                                                WhereContacts(x, query)}})
         IN  [contacts |-> [i \in 1..Len(LimitOffset(rows, SearchLimit, 0))
                              |-> ContactOf(rows[i])],
              err |-> "nil"]

----------------------------------------------------------------------------
(* The placeholders of the queries the store builds *)

\* placeholder(n): the token "$n" is the number n, the token "?" is 0
Placeholder(n) == IF isPostgres THEN n ELSE 0

\* a query text reduced to its placeholder tokens, in the order they stand in
\* the text, with the arguments handed to the driver next to it
Query(marks, args) == [marks |-> marks, args |-> args]

\* a filter appended by where = append(where, ".. " + placeholder(len(args)+1))
\* and args = append(args, arg), when the filter is set
AppendFilter(q, present, arg) ==
    IF present
    THEN Query(Append(q.marks, Placeholder(Len(q.args) + 1)),
               Append(q.args, arg))
    ELSE q

ListMessagesQuery(s) ==
    LET q1 == AppendFilter(Query(<<>>, <<>>), s.After # Empty, "after")
        q2 == AppendFilter(q1, s.Before # Empty, "before")
        q3 == AppendFilter(q2, s.SenderPhoneNumber # "", "sender")
        q4 == AppendFilter(q3, s.ChatJid # NoJID, "chat_jid")
        q5 == AppendFilter(q4, s.Query # Empty, "query")
        q6 == AppendFilter(q5, TRUE, "limit")
    IN  AppendFilter(q6, TRUE, "offset")

\* the search filter takes placeholder(len(args)+1) and placeholder(len(args)+2)
\* (two literal ? in SQLite) and appends two arguments; LIMIT takes
\* placeholder(len(args)+1) and appends the limit; OFFSET takes
\* placeholder(len(args)+2) when the limit is already appended
ListChatsQuery(query) ==
    LET q1 == IF query # Empty
              THEN Query(IF isPostgres THEN <<Placeholder(1), Placeholder(2)>>
                         ELSE <<0, 0>>,
                         <<"query", "query">>)
              ELSE Query(<<>>, <<>>)
        q2 == Query(Append(q1.marks, Placeholder(Len(q1.args) + 1)),
                    Append(q1.args, "limit"))
    IN  Query(Append(q2.marks, Placeholder(Len(q2.args) + 2)),
              Append(q2.args, "offset"))

\* the anchor query, the before query and the after query
GetMessageContextQueries ==
    {Query(<<Placeholder(1)>>, <<"messageID">>),
     Query(<<Placeholder(1), Placeholder(2), Placeholder(3)>>,
           <<"chatJid2", "ts", "before">>),
     Query(<<Placeholder(1), Placeholder(2), Placeholder(3)>>,
           <<"chatJid2", "ts", "after">>)}

GetContactChatsQuery ==
    Query(<<Placeholder(1), Placeholder(2), Placeholder(3), Placeholder(4)>>,
          <<"jid", "jid", "limit", "offset">>)

GetChatQuery == Query(<<Placeholder(1)>>, <<"chatJID">>)

\* "SELECT name FROM chats WHERE jid = ?": the token is written out
GetChatNameQuery == Query(<<0>>, <<"chatJID">>)

\* what the engine does with the text: Postgres takes a statement whose
\* parameters are $1..$k for the k arguments it is given, SQLite one with as
\* many ? as arguments
Accepted(q) ==
    IF isPostgres
    THEN {q.marks[i] : i \in 1..Len(q.marks)} = 1..Len(q.args)
    ELSE Len(q.marks) = Len(q.args)

----------------------------------------------------------------------------
(* MessageStore.ListChats *)

\* WHERE (LOWER(c.name) LIKE LOWER('%query%') OR c.jid LIKE '%query%'); the
\* LIKE of SQLite ignores the case of letters, the LIKE of Postgres does not
WhereChats(c, query) ==
    query # Empty =>
        \/ Like(Lower(Chars(c.name)), Lower(<<"%">> \o query \o <<"%">>))
        \/ IF isPostgres
           THEN Like(JIDString(c.jid), <<"%">> \o query \o <<"%">>)
           ELSE Like(Lower(JIDString(c.jid)),
                     Lower(<<"%">> \o query \o <<"%">>))

\* ORDER BY c.name ASC: any order of the rows that agrees with it
OrderByName(S) ==
    {f \in [1..Cardinality(S) -> S] :
        /\ \A i, j \in 1..Cardinality(S) : i # j => f[i] # f[j]
        /\ \A i, j \in 1..Cardinality(S) :
              i < j => ~TextLess(Chars(f[j].Name), Chars(f[i].Name))}

\* the results ListChats can return.  Without includeLastMessage the SELECT
\* names m.content with no table m in its FROM clause; a text whose
\* placeholders do not fit its arguments is rejected as well.
ListChats(chs, msgs, query, limit, page, includeLastMessage, sortBy) ==
    IF ~includeLastMessage \/ ~Accepted(ListChatsQuery(query))
    THEN {[chats |-> <<>>, err |-> "sql"]}
    ELSE LET rows == UNION {LeftJoinLast(msgs, c) :
                               c \in {c \in chs : WhereChats(c, query)}}
         IN  {[chats |-> LimitOffset(f, limit, page * limit), err |-> "nil"] :
                 f \in IF sortBy = "name" THEN OrderByName(rows)
                       ELSE OrderByLastMessageTime(rows)}

\* the limit the /api/chats handler takes when the request gives none
DefaultLimit == 30

\* the /api/chats handler: limit and page as Atoi leaves them (0 when absent
\* or malformed), q and sort as sent
ListChatsHandler(chs, msgs, q, limit, page, sortBy) ==
    ListChats(chs, msgs, q, IF limit < 1 THEN DefaultLimit ELSE limit,
              IF page < 0 THEN 0 ELSE page, TRUE, sortBy)

----------------------------------------------------------------------------
(* analyzeOggOpus and placeholderWaveform *)

\* A buffer is its bytes and the capacity of the slice that holds them; what
\* lies between the length and the capacity is zero (os.ReadFile allocates
\* the slice afresh, with room to spare).
Buffer(bytes, cap) == [bytes |-> bytes, cap |-> cap]

\* "OggS" and "OpusHead"
OggS == <<79, 103, 103, 83>>
OpusHead == <<79, 112, 117, 115, 72, 101, 97, 100>>

\* the byte at offset k of the backing array, for k below the capacity
At(data, k) == IF k < Len(data.bytes) THEN data.bytes[k + 1] ELSE 0

\* data[a:b] of the backing array, for b within the capacity
Slice(data, a, b) == [j \in 1..(b - a) |-> At(data, a + j - 1)]

\* binary.LittleEndian.Uint16, Uint32 and Uint64
RECURSIVE LittleEndian(_)
LittleEndian(bytes) ==
    IF bytes = <<>> THEN 0 ELSE Head(bytes) + 256 * LittleEndian(Tail(bytes))

\* bytes.Index(page, sep): the offset of the first occurrence, or -1
Index(page, sep) ==
    LET at == {k \in 0..(Len(page) - Len(sep)) :
                 SubSeq(page, k + 1, k + Len(sep)) = sep}
    IN  IF at = {} THEN -1 ELSE CHOOSE k \in at : \A j \in at : k <= j

\* the locals of the page loop before its first pass; panic: a slice
\* expression past the capacity has stopped the program; outside: a byte
\* beyond the length of the buffer or of the page slice has been read
ScanStart ==
    [lastGranule |-> 0, sampleRate |-> 48000, preSkip |-> 0,
     foundOpusHead |-> FALSE, panic |-> FALSE, outside |-> FALSE]

\* the sum of the segment table
RECURSIVE SumBytes(_)
SumBytes(bytes) ==
    IF bytes = <<>> THEN 0 ELSE Head(bytes) + SumBytes(Tail(bytes))

\* the search for the OpusHead marker in the page at offset i of pageSize
\* bytes: slicing past the capacity panics, and the four bytes of the sample
\* rate are sliced up to the capacity of the page slice, not its length
ReadOpusHead(data, i, pageSize, st) ==
    IF i + pageSize > data.cap
    THEN [st EXCEPT !.panic = TRUE, !.outside = TRUE]
    ELSE LET pageData == Slice(data, i, i + pageSize)
             found == Index(pageData, OpusHead)
             headPos == found + 8
             seen == [st EXCEPT
                        !.outside = @ \/ i + pageSize > Len(data.bytes)]
         IN  IF found >= 0 /\ found + 12 < Len(pageData)
                /\ headPos + 12 <= Len(pageData)
             THEN IF i + headPos + 16 > data.cap
                  THEN [seen EXCEPT !.panic = TRUE, !.outside = TRUE]
                  ELSE [seen EXCEPT
                          !.preSkip =
                             LittleEndian(SubSeq(pageData, headPos + 11,
                                                 headPos + 12)),
                          !.sampleRate =
                             LittleEndian(Slice(data, i + headPos + 12,
                                                i + headPos + 16)),
                          !.foundOpusHead = TRUE,
                          !.outside = @ \/ headPos + 16 > Len(pageData)]
             ELSE seen

\* the page loop from offset i on
RECURSIVE ScanPages(_, _, _)
ScanPages(data, i, st) ==
    IF i + 27 >= Len(data.bytes) THEN st
    ELSE IF Slice(data, i, i + 4) # OggS THEN ScanPages(data, i + 1, st)
    ELSE LET granulePos == LittleEndian(Slice(data, i + 6, i + 14))
             pageSeqNum == LittleEndian(Slice(data, i + 18, i + 22))
             numSegments == At(data, i + 26)
         IN  IF i + 27 + numSegments >= Len(data.bytes) THEN st
             ELSE LET pageSize ==
                        27 + numSegments
                          + SumBytes(Slice(data, i + 27, i + 27 + numSegments))
                      head == IF ~st.foundOpusHead /\ pageSeqNum <= 1
                              THEN ReadOpusHead(data, i, pageSize, st)
                              ELSE st
                  IN  IF head.panic THEN head
                      ELSE ScanPages(data, i + pageSize,
                                     IF granulePos # 0
                                     THEN [head EXCEPT
                                             !.lastGranule = granulePos]
                                     ELSE head)

\* what a conversion to uint32 can give for a float64 that no uint32
\* represents (the language leaves the result to the implementation)
ImplementationDependent == {0, 1, 300, 301, 2147483647}

\* the duration before the clamp. lastGranule - uint64(preSkip) is unsigned:
\* below zero it wraps to at least 2^64 - 65535, and divided by a sample rate
\* of at most 2^32 - 1 it exceeds every uint32; a sample rate of 0 makes the
\* quotient +Inf or NaN.
DurationsOf(st, length) ==
    IF st.lastGranule > 0
    THEN IF st.lastGranule < st.preSkip \/ st.sampleRate = 0
         THEN ImplementationDependent
         ELSE {(st.lastGranule - st.preSkip + st.sampleRate - 1)
                 \div st.sampleRate}
    ELSE {length \div 2000}

\* faulty variant: the duration is passed on as computed
Unclamped(duration) == duration

\* if duration < 1 {..} else if duration > 300 {..}
ClampDuration(duration) ==
    IF duration < 1 THEN 1 ELSE IF duration > 300 THEN 300 ELSE duration

\* the sample at position i before its clamp: the sum of the harmonics, the
\* seeded jitter and the offset of 50 lies between -10 and 110 and is a
\* function of duration and i alone; this function stands for it
RawSample(duration, i) == (((duration % 121) * 7 + i * 13) % 121) - 10

\* if val < 0 {..} else if val > 100 {..}
ClampSample(val) == IF val < 0 THEN 0 ELSE IF val > 100 THEN 100 ELSE val

placeholderWaveform(duration) ==
    [i \in 1..64 |-> ClampSample(RawSample(duration, i - 1))]

NoWaveform == <<>>

\* faulty variant: the signature is looked for anywhere in the buffer
HasOggSAnywhere(data) ==
    \E k \in 0..(Len(data.bytes) - 4) : Slice(data, k, k + 4) = OggS

\* len(data) >= 4 && string(data[0:4]) == "OggS"
HasSignature(data) ==
    Len(data.bytes) >= 4 /\ Slice(data, 0, 4) = OggS

\* the results analyzeOggOpus can return, each with the duration it had
\* before the clamp
analyzeOggOpus(data) ==
    IF ~HasSignature(data)
    THEN {[duration |-> 0, waveform |-> NoWaveform, err |-> "ParseError",
           raw |-> 0, outside |-> FALSE]}
    ELSE LET st == ScanPages(data, 0, ScanStart)
         IN  IF st.panic
             THEN {[duration |-> 0, waveform |-> NoWaveform,
                    err |-> "panic", raw |-> 0, outside |-> TRUE]}
             ELSE {[duration |-> ClampDuration(d),
                    waveform |-> placeholderWaveform(ClampDuration(d)),
                    err |-> "nil", raw |-> d, outside |-> st.outside] :
                      d \in DurationsOf(st, Len(data.bytes))}

----------------------------------------------------------------------------
(* sendWhatsAppMessage: the media branch *)

\* the media type chosen from the extension of the path
MediaTypeOf(fileExt) ==
    CASE fileExt \in {"jpg", "jpeg", "png", "gif", "webp"} -> "image"
      [] fileExt = "ogg" -> "audio"
      [] fileExt \in {"mp4", "avi", "mov"} -> "video"
      [] OTHER -> "document"

NotSent(reason) ==
    [ok |-> FALSE, reason |-> reason, kind |-> "", seconds |-> 0,
     waveform |-> NoWaveform]

Sent(kind, seconds, waveform) ==
    [ok |-> TRUE, reason |-> "Message sent", kind |-> kind,
     seconds |-> seconds, waveform |-> waveform]

\* the outcomes of sendWhatsAppMessage for a media file of the given
\* extension and content; connected, uploaded and delivered are the answers
\* of the protocol client
sendWhatsAppMessage(connected, uploaded, delivered, fileExt, data) ==
    IF ~connected THEN {NotSent("Not connected to WhatsApp")}
    ELSE IF ~uploaded THEN {NotSent("Error uploading media")}
    ELSE IF MediaTypeOf(fileExt) = "audio"
    THEN {IF r.err = "panic" THEN NotSent("panic")
          ELSE IF r.err # "nil"
          THEN NotSent("Failed to analyze Ogg Opus file")
          ELSE IF ~delivered THEN NotSent("Error sending message")
          ELSE Sent("audio", r.duration, r.waveform) :
             r \in analyzeOggOpus(data)}
    ELSE IF ~delivered THEN {NotSent("Error sending message")}
    ELSE {Sent(MediaTypeOf(fileExt), 0, NoWaveform)}

----------------------------------------------------------------------------
(* The inputs the operations are called with *)

Names == {"", "Alice"}

\* what the protocol client answers to the name lookups, and its own user
Client(contactFullName, groupInfoName) ==
    [ContactFullName |-> contactFullName, GroupInfoName |-> groupInfoName,
     OwnUser |-> "me"]
Clients == {Client("", ""), Client("Alice", "Fam")}

NoMedia == MediaInfo("", NoFilename, NoPart)

\* the message id the store is called with directly: one id, in either chat
StoreIDs == {"m1"}

\* the arguments of a direct StoreMessage call: a text message, a media
\* message that differs from it in every column, and an empty message
StoreInputs ==
    UNION {{StoreMessageArgs(id, jid, "u1", <<"a">>, 1, FALSE, NoMedia),
            StoreMessageArgs(id, jid, "me", <<"A", "b">>, MaxTime, TRUE,
                MediaInfo("image", Filename("image_", 1, ".jpg"),
                          Part("p1", 1, ""))),
            StoreMessageArgs(id, jid, "u1", Empty, 1, FALSE, NoMedia)} :
           id \in StoreIDs, jid \in ChatJIDs}

\* the descriptor a StoreMediaInfo call supplies
LateParts == {Part("p2", 2, "")}

\* msg.Info of a live event; IsFromMe is set when the sender is the own user
MessageInfo(chat, id, timestamp, sender) ==
    [Chat |-> chat, ID |-> id, Timestamp |-> timestamp, Sender |-> sender,
     IsFromMe |-> (sender = "me")]

TextMessage == ProtoMessage(<<"a">>, NoExt, NoPart, NoPart, NoPart, NoPart)
ImageMessage ==
    ProtoMessage(Empty, Ext(<<"A", "b">>), Part("p1", 1, ""), NoPart, NoPart,
                 NoPart)
EmptyMessage == ProtoMessage(Empty, NoExt, NoPart, NoPart, NoPart, NoPart)

\* the live events: a text from the contact, a captioned image from the own
\* user, and a message with neither text nor media
LiveEvents ==
    {<<MessageInfo(jid, "m1", x[1], x[2]), x[3]>> :
        jid \in ChatJIDs,
        x \in {<<1, "u1", TextMessage>>, <<MaxTime, "me", ImageMessage>>,
               <<1, "u1", EmptyMessage>>}}

\* the entries of a history-sync conversation: an image of the own user and
\* an entry without text and media
HistoryMessages ==
    {HistoryMessage(TRUE, TRUE, "", "m2", MaxTime, ImageMessage),
     HistoryMessage(TRUE, FALSE, "", "m2", 1, EmptyMessage)}

\* the sequences of at most n elements of S
SeqsUpTo(S, n) == UNION {[1..k -> S] : k \in 0..n}

\* the names a conversation of the chat carries in the sync metadata
\* (DisplayName, Name)
EmbeddedNames(jid) ==
    IF jid.Server = "g.us" THEN {<<"", "">>, <<"Disp", "Conv">>}
    ELSE {<<"", "">>}

\* the history-sync events: one conversation of either chat
HistoryEvents ==
    UNION {{<<Conversation(TRUE, jid, nm[1], nm[2], hms)>> :
               nm \in EmbeddedNames(jid),
               hms \in SeqsUpTo(HistoryMessages, MaxBatch) \ {<<>>}} :
           jid \in ChatJIDs}

----------------------------------------------------------------------------
(* The state after construction, and one action per operation *)

\* no GetMessageContext call is between two of its queries
Idle == [pc |-> "idle"]

\* isPostgres: the dialect flag; chats, messages: the two tables; now: the
\* wall clock in seconds; ret: the last call, its arguments and what it
\* returned; pending: the position of the request handler inside
\* GetMessageContext and what its queries have read so far
Init ==
    /\ isPostgres \in BOOLEAN
    /\ chats = {}
    /\ messages = {}
    /\ now = 1
    /\ ret = [op |-> "NewMessageStore", in |-> <<>>, out |-> <<>>]
    /\ pending = Idle

\* a second passes
Tick ==
    /\ now < MaxNow
    /\ now' = now + 1
    /\ UNCHANGED <<pending, isPostgres, chats, messages, ret>>

CallStoreChat(jid, name, lastMessageTime) ==
    /\ chats' = StoreChat(chats, jid, name, lastMessageTime)
    /\ ret' = [op |-> "StoreChat",
               in |-> [jid |-> jid, name |-> name,
                       lastMessageTime |-> lastMessageTime],
               out |-> [err |-> "nil",
                        replaced |-> {c \in chats : c.jid = jid}]]
    /\ UNCHANGED <<pending, isPostgres, messages, now>>

\* cap: the number of rows the model lets the messages table grow to
CallStoreMessage(m, cap) ==
    /\ Cardinality(StoreMessage(chats, messages, m).messages) <= cap
    /\ messages' = StoreMessage(chats, messages, m).messages
    /\ ret' = [op |-> "StoreMessage", in |-> m,
               out |-> [err |-> StoreMessage(chats, messages, m).err,
                        replaced |-> {r \in messages :
                                        SameKey(r, MessageRow(m))}]]
    /\ UNCHANGED <<pending, isPostgres, chats, now>>

CallStoreMediaInfo(id, chatJID, part) ==
    /\ messages' = StoreMediaInfo(messages, id, chatJID, part.URL,
                                  part.MediaKey, part.FileSHA256,
                                  part.FileEncSHA256, part.FileLength)
    /\ ret' = [op |-> "StoreMediaInfo",
               in |-> [id |-> id, chatJID |-> chatJID, part |-> part],
               out |-> [err |-> "nil"]]
    /\ UNCHANGED <<pending, isPostgres, chats, now>>

CallGetMediaInfo(id, chatJID) ==
    /\ \E r \in GetMediaInfo(messages, id, chatJID) :
          ret' = [op |-> "GetMediaInfo",
                  in |-> [id |-> id, chatJID |-> chatJID], out |-> r]
    /\ UNCHANGED <<pending, isPostgres, chats, messages, now>>

CallGetChat(chatJID, includeLastMessage) ==
    /\ \E r \in GetChat(chats, messages, chatJID, includeLastMessage) :
          ret' = [op |-> "GetChat",
                  in |-> [chatJID |-> chatJID,
                          includeLastMessage |-> includeLastMessage],
                  out |-> r]
    /\ UNCHANGED <<pending, isPostgres, chats, messages, now>>

\* GET /api/chats
CallListChats(q, limit, page, sortBy) ==
    /\ \E r \in ListChatsHandler(chats, messages, q, limit, page, sortBy) :
          ret' = [op |-> "ListChats",
                  in |-> [q |-> q, limit |-> limit, page |-> page,
                          sortBy |-> sortBy],
                  out |-> r]
    /\ UNCHANGED <<pending, isPostgres, chats, messages, now>>

CallGetContactChats(jid, limit, page) ==
    /\ \E r \in GetContactChats(chats, messages, jid, limit, page) :
          ret' = [op |-> "GetContactChats",
                  in |-> [jid |-> jid, limit |-> limit, page |-> page],
                  out |-> r]
    /\ UNCHANGED <<pending, isPostgres, chats, messages, now>>

\* GET /api/direct-contacts/{phone}/chat
CallGetDirectChatByContact(phone) ==
    /\ \E r \in GetDirectChatByContact(chats, messages, phone) :
          ret' = [op |-> "GetDirectChatByContact", in |-> [phone |-> phone],
                  out |-> r]
    /\ UNCHANGED <<pending, isPostgres, chats, messages, now>>

\* GET /api/contacts/search?q=.., on the contact table as it is then
CallSearchContacts(table, query) ==
    /\ ret' = [op |-> "SearchContacts",
               in |-> [table |-> table, query |-> query],
               out |-> SearchContacts(table, query)]
    /\ UNCHANGED <<pending, isPostgres, chats, messages, now>>

CallAnalyzeOggOpus(data) ==
    /\ \E r \in analyzeOggOpus(data) :
          ret' = [op |-> "analyzeOggOpus", in |-> [data |-> data], out |-> r]
    /\ UNCHANGED <<pending, isPostgres, chats, messages, now>>

CallSendWhatsAppMessage(connected, uploaded, delivered, fileExt, data) ==
    /\ \E r \in sendWhatsAppMessage(connected, uploaded, delivered, fileExt,
                                    data) :
          ret' = [op |-> "sendWhatsAppMessage",
                  in |-> [connected |-> connected, uploaded |-> uploaded,
                          delivered |-> delivered, fileExt |-> fileExt,
                          data |-> data],
                  out |-> r]
    /\ UNCHANGED <<pending, isPostgres, chats, messages, now>>

CallGetMessageContext(messageID, before, after) ==
    /\ \E r \in GetMessageContext(chats, messages, messageID, before, after) :
          ret' = [op |-> "GetMessageContext",
                  in |-> [messageID |-> messageID, before |-> before,
                          after |-> after],
                  out |-> r]
    /\ UNCHANGED <<pending, isPostgres, chats, messages, now>>

\* GetMessageContext query by query, for a handler that runs while the event
\* handler writes: the target message query
ContextTarget(messageID, before, after) ==
    /\ pending.pc = "idle"
    /\ IF TargetRows(chats, messages, messageID) = {}
       THEN /\ ret' = [op |-> "GetMessageContext",
                       in |-> [messageID |-> messageID, before |-> before,
                               after |-> after],
                       out |-> NoContext]
            /\ pending' = pending
       ELSE /\ \E t \in TargetRows(chats, messages, messageID) :
                  pending' = [pc |-> "before",
                              in |-> [messageID |-> messageID,
                                      before |-> before, after |-> after],
                              chatJid2 |-> t.chat_jid, ts |-> t.timestamp,
                              Message |-> ScanRows(chats, <<t>>)[1],
                              Before |-> <<>>]
            /\ ret' = ret
    /\ UNCHANGED <<isPostgres, chats, messages, now>>

\* the query for the messages before the target, with the chat and the
\* timestamp the target query has read
ContextBefore ==
    /\ pending.pc = "before"
    /\ \E b \in OrderBy(BeforeRows(messages, pending.chatJid2, pending.ts),
                        TimestampDesc) :
          pending' = [pending EXCEPT
                        !.pc = "after",
                        !.Before = ScanRows(chats,
                                            LimitOffset(b, pending.in.before,
                                                        0))]
    /\ UNCHANGED <<isPostgres, chats, messages, now, ret>>

\* the query for the messages after the target, and the return
ContextAfter ==
    /\ pending.pc = "after"
    /\ \E a \in OrderBy(AfterRows(messages, pending.chatJid2, pending.ts),
                        TimestampAsc) :
          ret' = [op |-> "GetMessageContext", in |-> pending.in,
                  out |-> [Message |-> pending.Message,
                           Before |-> pending.Before,
                           After |-> ScanRows(chats,
                                              LimitOffset(a, pending.in.after,
                                                          0)),
                           err |-> "nil"]]
    /\ pending' = Idle
    /\ UNCHANGED <<isPostgres, chats, messages, now>>

CallListMessages(s) ==
    /\ \E r \in ListMessages(chats, messages, s) :
          ret' = [op |-> "ListMessages", in |-> s, out |-> r]
    /\ UNCHANGED <<pending, isPostgres, chats, messages, now>>

\* the event handler's case *events.Message
EventMessage(info, msg, client, cap) ==
    LET st == handleMessage([chats |-> chats, messages |-> messages], info,
                            msg, client, now)
    IN  /\ Cardinality(st.messages) <= cap
        /\ chats' = st.chats
        /\ messages' = st.messages
        /\ ret' = [op |-> "handleMessage",
                   in |-> [info |-> info, msg |-> msg, client |-> client],
                   out |-> [replaced |-> {c \in chats : c.jid = info.Chat}]]
        /\ UNCHANGED <<pending, isPostgres, now>>

\* the event handler's case *events.HistorySync
EventHistorySync(conversations, client, cap) ==
    LET st == handleHistorySync([chats |-> chats, messages |-> messages],
                                conversations, client, now)
    IN  /\ Cardinality(st.messages) <= cap
        /\ chats' = st.chats
        /\ messages' = st.messages
        /\ ret' = [op |-> "handleHistorySync",
                   in |-> [conversations |-> conversations,
                           client |-> client],
                   out |-> [replaced |-> chats]]
        /\ UNCHANGED <<pending, isPostgres, now>>

----------------------------------------------------------------------------
(* The store called through its API *)

Next ==
    \/ \E jid \in ChatJIDs, name \in Names, t \in Times :
          CallStoreChat(jid, name, t)
    \/ \E m \in StoreInputs : CallStoreMessage(m, MaxRows)
    \/ \E id \in StoreIDs, jid \in ChatJIDs, part \in LateParts :
          CallStoreMediaInfo(id, jid, part)
    \/ \E id \in StoreIDs, jid \in ChatJIDs : CallGetMediaInfo(id, jid)
    \/ \E jid \in ChatJIDs, b \in BOOLEAN : CallGetChat(jid, b)

Spec == Init /\ [][Next]_vars

----------------------------------------------------------------------------
(* Properties of the store API *)

\* the rows of the messages table with the key of the StoreMessage call m
RowsOfCall(msgs, m) == {r \in msgs : r.id = m.id /\ r.chat_jid = m.chatJID}

\* a StoreMessage call that takes the early return
EmptyCall(m) == m.content = Empty /\ m.mediaType = ""

\* C1: in both dialects the messages table holds at most one row per
\* (id, chat_jid); a StoreMessage call that is not skipped and succeeds
\* leaves exactly the row made of its arguments under its key and every
\* other row as it was, so each key carries the values of the most recent
\* such call (a second call with other content leaves only the new content).
C1_UpsertLastWriteWins ==
    [][ret'.op = "StoreMessage" =>
         /\ \A r1, r2 \in messages' :
               (r1.id = r2.id /\ r1.chat_jid = r2.chat_jid) => r1 = r2
         /\ IF EmptyCall(ret'.in) \/ ret'.out.err # "nil"
            THEN messages' = messages
            ELSE /\ RowsOfCall(messages', ret'.in) = {MessageRow(ret'.in)}
                 /\ messages' \ RowsOfCall(messages', ret'.in)
                      = messages \ RowsOfCall(messages, ret'.in)]_vars

\* C1 witness: a call has replaced a row that differed in content, while the
\* other chat holds a message with the same id
C1_Witness ==
    /\ ret.op = "StoreMessage"
    /\ ret.out.err = "nil"
    /\ ~EmptyCall(ret.in)
    /\ \E old \in ret.out.replaced : old.content # ret.in.content
    /\ \E r \in messages : r.id = ret.in.id /\ r.chat_jid # ret.in.chatJID

\* C2 as stated: a StoreMessage call with empty content and empty media type
\* returns success and writes nothing, and the GetMediaInfo lookup of the same
\* id and chat that follows it returns NotFound.
C2_EmptyThenNotFound ==
    [][/\ (ret'.op = "StoreMessage" /\ EmptyCall(ret'.in)) =>
             (ret'.out.err = "nil" /\ messages' = messages)
       /\ (/\ ret.op = "StoreMessage"
           /\ EmptyCall(ret.in)
           /\ ret'.op = "GetMediaInfo"
           /\ ret'.in.id = ret.in.id
           /\ ret'.in.chatJID = ret.in.chatJID) =>
             ret'.out.err = "ErrNoRows"]_vars

\* C2 amended: the call returns success and writes nothing; the lookup that
\* follows returns NotFound when no row was stored under that id and chat
\* before the call, and otherwise returns the media columns of that row.
C2_EmptyIsNoOp ==
    [][/\ (ret'.op = "StoreMessage" /\ EmptyCall(ret'.in)) =>
             (ret'.out.err = "nil" /\ messages' = messages)
       /\ (/\ ret.op = "StoreMessage"
           /\ EmptyCall(ret.in)
           /\ ret'.op = "GetMediaInfo"
           /\ ret'.in.id = ret.in.id
           /\ ret'.in.chatJID = ret.in.chatJID) =>
             IF ret.out.replaced = {}
             THEN ret'.out.err = "ErrNoRows"
             ELSE /\ ret'.out.err = "nil"
                  /\ \E old \in ret.out.replaced :
                        /\ ret'.out.mediaType = old.media_type
                        /\ ret'.out.filename = old.filename
                        /\ ret'.out.url = old.url]_vars

\* C2 witness: an empty message was handed to StoreMessage for a key that has
\* no row, in a chat that exists and while the other chat holds the same id
C2_Witness ==
    /\ ret.op = "StoreMessage"
    /\ EmptyCall(ret.in)
    /\ ret.out.err = "nil"
    /\ ret.out.replaced = {}
    /\ \E c \in chats : c.jid = ret.in.chatJID
    /\ \E r \in messages : r.id = ret.in.id

\* C6: after StoreChat(jid, name, lastMessageTime) the chats table holds
\* exactly one row for jid, and every result GetChat(jid) can return is that
\* chat with exactly the supplied name and lastMessageTime, also when the
\* supplied name is empty and the stored one was not.
C6_StoreChatThenGetChat ==
    ret.op = "StoreChat" =>
        /\ Cardinality({c \in chats : c.jid = ret.in.jid}) = 1
        /\ \A r \in GetChat(chats, messages, ret.in.jid, TRUE) :
              /\ r.err = "nil"
              /\ ~r.chat.isNil
              /\ r.chat.JID = ret.in.jid
              /\ r.chat.Name = ret.in.name
              /\ r.chat.LastMessageTime = ret.in.lastMessageTime

\* C6 witness: StoreChat with an empty name has replaced a non-empty name of
\* a chat that holds a message
C6_Witness ==
    /\ ret.op = "StoreChat"
    /\ ret.in.name = ""
    /\ \E c \in ret.out.replaced : c.name # ""
    /\ \E r \in messages : r.chat_jid = ret.in.jid

----------------------------------------------------------------------------
(* The store fed by the event handlers *)

NextEvents ==
    \/ \E e \in LiveEvents, client \in Clients :
          EventMessage(e[1], e[2], client, MaxRows)
    \/ \E convs \in HistoryEvents : EventHistorySync(convs, Client("", "Fam"), MaxRows)
    \/ \E m \in StoreInputs : CallStoreMessage(m, MaxRows)
    \/ \E id \in StoreIDs, jid \in ChatJIDs, part \in LateParts :
          CallStoreMediaInfo(id, jid, part)

SpecEvents == Init /\ [][NextEvents]_vars

\* C3: no row of the messages table has both an empty content and an empty
\* media_type, whatever StoreMessage and StoreMediaInfo calls, live messages
\* and history-sync events came before.
C3_NoEmptyRow ==
    \A r \in messages : ~(r.content = Empty /\ r.media_type = "")

\* C3 witness: a history-sync conversation with an entry that has neither text
\* nor media and an entry that has was handled, and the table holds rows
C3_Witness ==
    /\ ret.op = "handleHistorySync"
    /\ \E i, j \in 1..Len(ret.in.conversations[1].Messages) :
          /\ ret.in.conversations[1].Messages[i].Message = EmptyMessage
          /\ ret.in.conversations[1].Messages[j].Message = ImageMessage
    /\ \E r \in messages : r.chat_jid = ret.in.conversations[1].ID
    /\ \E r \in messages : r.url = "p2"

\* C5 as stated: in both dialects a live message or a history-sync
\* conversation leaves every non-empty stored chat name as it is.
C5_NameKept ==
    [][ret'.op \in {"handleMessage", "handleHistorySync"} =>
         \A c \in chats : c.name # "" =>
            \A d \in chats' : d.jid = c.jid => d.name = c.name]_vars

----------------------------------------------------------------------------
(* History-sync events as the clock advances *)

NextSync ==
    \/ Tick
    \/ \E convs \in HistoryEvents, client \in Clients :
          EventHistorySync(convs, client, MaxRows)

SpecSync == Init /\ [][NextSync]_vars

\* C4 as stated: handling the same history-sync conversation a second time
\* leaves the chats and the messages table as the first time left them.
C4_SyncTwiceSame ==
    [][(/\ ret.op = "handleHistorySync"
        /\ ret'.op = "handleHistorySync"
        /\ ret'.in = ret.in) =>
          (chats' = chats /\ messages' = messages)]_vars

----------------------------------------------------------------------------
(* The query engine over a store filled through the API *)

\* the text messages the queried store is filled with: three ids in the
\* group chat at any timestamp, one of them also in the direct chat
QueryInputs ==
    {StoreMessageArgs(x[1], GroupJID, x[2], x[3], t, x[2] = "me", NoMedia) :
        x \in {<<"m1", "u1", <<"a">>>>, <<"m2", "me", <<"A", "b">>>>,
               <<"m3", "u1", <<"a">>>>},
        t \in Times}
    \cup {StoreMessageArgs("m1", UserJID, "u1", <<"a">>, 1, FALSE, NoMedia)}

\* the parameters ListMessages is called with
ListParams ==
    [After : {Empty, RFC3339(MaxTime - 1)},
     Before : {Empty, RFC3339(MaxTime - 1)},
     SenderPhoneNumber : {"", "u1"},
     ChatJid : {NoJID, GroupJID},
     Query : {Empty, <<"B">>, <<"_">>},
     Limit : 1..MaxCount,
     Page : Counts,
     IncludeContext : {FALSE},
     ContextBefore : {1},
     ContextAfter : {1}]

\* A query leaves the store as it is: the model takes each query as the last
\* step of a behaviour, so every query is asked once in every state of the
\* store and no state is the answer to one query asked after another.
NextQuery ==
    /\ ret.op \notin {"GetMessageContext", "ListMessages"}
    /\ \/ \E jid \in ChatJIDs : CallStoreChat(jid, "Alice", 1)
       \/ \E m \in QueryInputs : CallStoreMessage(m, MaxStored)
       \/ \E id \in MsgIDs \cup {"m0"}, before \in Counts, after \in Counts :
             CallGetMessageContext(id, before, after)
       \/ \E s \in ListParams : CallListMessages(s)

SpecQuery == Init /\ [][NextQuery]_vars

----------------------------------------------------------------------------
(* Properties of the query engine *)

Min(a, b) == IF a < b THEN a ELSE b

\* the stored messages of a chat before and after a timestamp
EarlierInChat(jid, t) ==
    {m \in messages : m.chat_jid = jid /\ m.timestamp < t}
LaterInChat(jid, t) ==
    {m \in messages : m.chat_jid = jid /\ m.timestamp > t}

\* the entry e of a result is the stored message m
IsEntryOf(e, m) ==
    /\ e.ID = m.id
    /\ e.ChatJID = m.chat_jid
    /\ e.Timestamp = m.timestamp
    /\ e.Content = m.content
    /\ e.Sender = m.sender

\* C7: for a stored message id and counts N, M, GetMessageContext returns an
\* anchor with that id, min(N, earlier messages of the anchor's chat)
\* before-entries and min(M, later messages of the anchor's chat)
\* after-entries; every before-entry is a message of the anchor's chat with
\* a timestamp strictly less than the anchor's, every after-entry one with a
\* timestamp strictly greater.
C7_ContextWindow ==
    (ret.op = "GetMessageContext"
       /\ \E m \in messages : m.id = ret.in.messageID) =>
        LET a == ret.out.Message
            B == ret.out.Before
            A == ret.out.After
        IN  /\ ret.out.err = "nil"
            /\ a.ID = ret.in.messageID
            /\ \E m \in messages : IsEntryOf(a, m)
            /\ Len(B) = Min(ret.in.before,
                            Cardinality(EarlierInChat(a.ChatJID, a.Timestamp)))
            /\ Len(A) = Min(ret.in.after,
                            Cardinality(LaterInChat(a.ChatJID, a.Timestamp)))
            /\ \A i \in 1..Len(B) :
                  /\ B[i].ChatJID = a.ChatJID
                  /\ B[i].Timestamp < a.Timestamp
                  /\ \E m \in messages : IsEntryOf(B[i], m)
            /\ \A i \in 1..Len(A) :
                  /\ A[i].ChatJID = a.ChatJID
                  /\ A[i].Timestamp > a.Timestamp
                  /\ \E m \in messages : IsEntryOf(A[i], m)

\* C7 witness: one before-entry was asked for and returned while the chat
\* holds two earlier messages, and no after-entry came back for want of a
\* later message
C7_Witness ==
    /\ ret.op = "GetMessageContext"
    /\ ret.out.err = "nil"
    /\ ret.in.before = 1
    /\ Len(ret.out.Before) = 1
    /\ Cardinality(EarlierInChat(ret.out.Message.ChatJID,
                                 ret.out.Message.Timestamp)) = 2
    /\ ret.in.after > 0
    /\ ret.out.After = <<>>

\* C8: GetMessageContext leaves both tables as they are, and for a message
\* id that no stored message has it returns the NotFound error with no
\* anchor, no before-entries and no after-entries.
C8_UnknownIdNotFound ==
    [][ret'.op = "GetMessageContext" =>
         /\ chats' = chats
         /\ messages' = messages
         /\ (\A m \in messages : m.id # ret'.in.messageID) =>
               /\ ret'.out.err = "not found"
               /\ ret'.out.Message = NoInteraction
               /\ ret'.out.Before = <<>>
               /\ ret'.out.After = <<>>]_vars

\* C8 witness: a non-empty store was asked for the context of an id it does
\* not hold, with non-zero counts
C8_Witness ==
    /\ ret.op = "GetMessageContext"
    /\ ret.out.err = "not found"
    /\ ret.in.before > 0
    /\ ret.in.after > 0
    /\ messages # {}
    /\ \A m \in messages : m.id # ret.in.messageID

\* q occurs in text
IsSubstring(q, text) ==
    \E i \in 0..(Len(text) - Len(q)) : SubSeq(text, i + 1, i + Len(q)) = q

\* the stored messages that satisfy the filters of s: strictly between the
\* time bounds, of the sender, of the chat, and holding the query as a
\* substring without regard to case
Satisfies(m, s) ==
    /\ s.After # Empty => m.timestamp > ParseTime(s.After).t
    /\ s.Before # Empty => m.timestamp < ParseTime(s.Before).t
    /\ s.SenderPhoneNumber # "" => m.sender = s.SenderPhoneNumber
    /\ s.ChatJid # NoJID => m.chat_jid = s.ChatJid
    /\ s.Query # Empty => IsSubstring(Lower(s.Query), Lower(m.content))

\* a ListMessages call without context expansion whose time filters parse
PlainList ==
    /\ ret.op = "ListMessages"
    /\ ~ret.in.IncludeContext
    /\ ret.in.After # Empty => ParseTime(ret.in.After).ok
    /\ ret.in.Before # Empty => ParseTime(ret.in.Before).ok

\* C9 as stated: without context expansion ListMessages returns the messages
\* at positions [page*limit, page*limit + limit) of the list of the messages
\* that satisfy all supplied filters, ordered by timestamp descending.
C9_PageOfMatches ==
    PlainList =>
        /\ ret.out.err = "nil"
        /\ \E rows \in OrderBy({m \in messages : Satisfies(m, ret.in)},
                               TimestampDesc) :
              /\ Len(ret.out.list)
                   = Len(LimitOffset(rows, ret.in.Limit,
                                     ret.in.Page * ret.in.Limit))
              /\ \A i \in 1..Len(ret.out.list) :
                    IsEntryOf(ret.out.list[i],
                              rows[ret.in.Page * ret.in.Limit + i])

\* the messages a call with only time filters returns when they fit on its
\* first page
OnlyTimeFilters ==
    /\ PlainList
    /\ ret.out.err = "nil"
    /\ ret.in.SenderPhoneNumber = ""
    /\ ret.in.ChatJid = NoJID
    /\ ret.in.Query = Empty
    /\ ret.in.Page = 0
    /\ Len(ret.out.list) < ret.in.Limit

Returned(m) == \E i \in 1..Len(ret.out.list) : IsEntryOf(ret.out.list[i], m)

\* C10 as stated: the time filters are inclusive-exclusive: every returned
\* message has after <= timestamp < before, a message whose timestamp equals
\* after is returned and one whose timestamp equals before is not.
C10_InclusiveExclusive ==
    /\ (PlainList /\ ret.out.err = "nil") =>
          \A i \in 1..Len(ret.out.list) :
             /\ ret.in.After # Empty =>
                   ret.out.list[i].Timestamp >= ParseTime(ret.in.After).t
             /\ ret.in.Before # Empty =>
                   ret.out.list[i].Timestamp < ParseTime(ret.in.Before).t
    /\ OnlyTimeFilters =>
          \A m \in messages :
             (/\ ret.in.After # Empty
              /\ m.timestamp >= ParseTime(ret.in.After).t
              /\ ret.in.Before # Empty =>
                    m.timestamp < ParseTime(ret.in.Before).t) => Returned(m)

\* C10 amended: both time filters are exclusive: every returned message has
\* after < timestamp < before, a message whose timestamp equals after or
\* equals before is not returned, and a message strictly between the bounds
\* is.
C10_ExclusiveBounds ==
    /\ (PlainList /\ ret.out.err = "nil") =>
          \A i \in 1..Len(ret.out.list) :
             /\ ret.in.After # Empty =>
                   ret.out.list[i].Timestamp > ParseTime(ret.in.After).t
             /\ ret.in.Before # Empty =>
                   ret.out.list[i].Timestamp < ParseTime(ret.in.Before).t
    /\ OnlyTimeFilters =>
          \A m \in messages :
             (/\ ret.in.After # Empty =>
                    m.timestamp > ParseTime(ret.in.After).t
              /\ ret.in.Before # Empty =>
                    m.timestamp < ParseTime(ret.in.Before).t) => Returned(m)

\* C10 witness: with only the after filter set, the message at the bound is
\* left out and a later one is returned
C10_Witness ==
    /\ OnlyTimeFilters
    /\ ret.in.After # Empty
    /\ ret.in.Before = Empty
    /\ \E m \in messages :
          m.timestamp = ParseTime(ret.in.After).t /\ ~Returned(m)
    /\ \E m \in messages :
          m.timestamp > ParseTime(ret.in.After).t /\ Returned(m)

----------------------------------------------------------------------------
(* ListMessages with malformed time filters and with context expansion *)

\* the filters of the calls: time texts that parse and one that does not,
\* with and without context expansion
ContextParams ==
    [After : {Empty, BadTime, RFC3339(1)}, Before : {Empty, BadTime},
     SenderPhoneNumber : {""}, ChatJid : {NoJID, GroupJID},
     Query : {Empty, <<"a">>}, Limit : 1..MaxCount, Page : 0..1,
     IncludeContext : BOOLEAN, ContextBefore : 0..1, ContextAfter : {1}]

NextList ==
    /\ ret.op # "ListMessages"
    /\ \/ \E jid \in ChatJIDs : CallStoreChat(jid, "Alice", 1)
       \/ \E m \in QueryInputs : CallStoreMessage(m, MaxStored)
       \/ \E s \in ContextParams : CallListMessages(s)

SpecList == Init /\ [][NextList]_vars

\* C11: a ListMessages call whose after or before filter is non-empty and
\* not a timestamp returns a validation error and no messages, whatever the
\* other filters are; it leaves the tables alone and its outcome does not
\* depend on what the store holds (no query is run).
C11_BadTimeIsValidationError ==
    [][(ret'.op = "ListMessages"
          /\ (ret'.in.After = BadTime \/ ret'.in.Before = BadTime)) =>
         /\ ret'.out.err \in {"invalid after format", "invalid before format"}
         /\ ret'.out.list = <<>>
         /\ chats' = chats
         /\ messages' = messages
         /\ ListMessages(chats, messages, ret'.in)
              = ListMessages({}, {}, ret'.in)]_vars

\* C11 witness: the after filter parses, the before filter does not, the
\* store holds messages and further filters are set
C11_Witness ==
    /\ ret.op = "ListMessages"
    /\ ret.in.After = RFC3339(1)
    /\ ret.in.Before = BadTime
    /\ ret.in.Query # Empty
    /\ ret.in.IncludeContext
    /\ messages # {}
    /\ ret.out.err = "invalid before format"

\* the concatenations of one window per entry of list, each window anchored
\* at the stored message with the id and the chat of its entry
RECURSIVE AnchoredWindows(_, _)
AnchoredWindows(list, s) ==
    IF list = <<>> THEN {<<>>}
    ELSE {ctx.Before \o <<ctx.Message>> \o ctx.After \o rest :
            ctx \in {c \in GetMessageContext(chats, messages, Head(list).ID,
                                             s.ContextBefore, s.ContextAfter) :
                        /\ c.err = "nil"
                        /\ c.Message.ChatJID = Head(list).ChatJID},
            rest \in AnchoredWindows(Tail(list), s)}

\* the pages of matched messages a call can return without expansion
MatchedPages(s) ==
    {r.list : r \in ListMessages(chats, messages,
                                 [s EXCEPT !.IncludeContext = FALSE])}

\* C12 as stated: with context expansion the output of ListMessages is the
\* concatenation, in match order, of one window per matched message, and
\* the anchor of each window is the matched message itself (same id and
\* same chat), also when another chat holds a message with the same id.
C12_WindowPerMatch ==
    (ret.op = "ListMessages" /\ ret.in.IncludeContext
       /\ ret.out.err = "nil") =>
        \E l \in MatchedPages(ret.in) :
            ret.out.list \in AnchoredWindows(l, ret.in)

----------------------------------------------------------------------------
(* The lookups of chats *)

\* the contact a lookup is made for: a sender, or the address of a chat
ContactArgs == {Chars("u1"), JIDString(GroupJID), JIDString(UserJID)}

\* the phone numbers of the direct lookup: one of a stored chat, one of none
Phones == {Chars("u1"), <<"9">>}

LookupOps == {"GetChat", "GetDirectChatByContact", "GetContactChats"}

NextLookup ==
    /\ ret.op \notin LookupOps
    /\ \/ \E jid \in ChatJIDs, t \in Times : CallStoreChat(jid, "Alice", t)
       \/ \E m \in QueryInputs : CallStoreMessage(m, MaxStored)
       \/ \E jid \in ContactArgs, limit \in 1..MaxCount, page \in 0..1 :
             CallGetContactChats(jid, limit, page)
       \/ \E jid \in ChatJIDs : CallGetChat(jid, TRUE)
       \/ \E phone \in Phones : CallGetDirectChatByContact(phone)

SpecLookup == Init /\ [][NextLookup]_vars

\* the contact is the sender of some message of chat c, or c's own address
\* is the contact's
IsContactChat(c, jid) ==
    \/ JIDString(c.jid) = jid
    \/ \E m \in messages : m.chat_jid = c.jid /\ Chars(m.sender) = jid

\* C13 as stated: GetContactChats returns each chat at most once, only
\* chats in which the contact is a sender or whose address is the
\* contact's, and (when the page is not cut by limit) every such chat, also
\* when a chat holds several messages.
C13_EachChatOnce ==
    ret.op = "GetContactChats" =>
        /\ ret.out.err = "nil"
        /\ \A i, j \in 1..Len(ret.out.chats) :
              i # j => ret.out.chats[i].JID # ret.out.chats[j].JID
        /\ \A i \in 1..Len(ret.out.chats) :
              \E c \in chats : /\ c.jid = ret.out.chats[i].JID
                               /\ IsContactChat(c, ret.in.jid)
        /\ (ret.in.page = 0 /\ Len(ret.out.chats) < ret.in.limit) =>
              \A c \in chats :
                 IsContactChat(c, ret.in.jid) =>
                    \E i \in 1..Len(ret.out.chats) :
                       ret.out.chats[i].JID = c.jid

\* C14 as stated: GetChat and GetDirectChatByContact surface a missing row
\* as a nil chat with no error, so that the REST layer answers 404 and not
\* 500.
C14_MissingRowIsAbsent ==
    (ret.op \in {"GetChat", "GetDirectChatByContact"}
       /\ ret.out.chat.isNil) =>
        /\ ret.out.err = "nil"
        /\ LookupStatus(ret.out) = 404

----------------------------------------------------------------------------
(* The contact search *)

MaxContacts == 60

Digit(d) == Alphabet[d + 2]

\* the n-th contact: a two-digit user, every seventh a group address, names
\* alternating
ContactRow(n) ==
    [our_jid |-> Chars("me"),
     their_jid |-> <<Digit(n \div 10), Digit(n % 10), "@">>
                     \o (IF n % 7 = 0 THEN Chars("g.us")
                         ELSE Chars("s.whatsapp.net")),
     first_name |-> IF n % 2 = 0 THEN <<"a">> ELSE <<"b">>]

\* the contact tables: the first k contacts
ContactTable(k) == {ContactRow(n) : n \in 1..k}

SearchQueries == {Empty, <<"a">>, <<"B">>, <<"g", ".", "u", "s">>, <<"%">>}

NextContacts ==
    /\ ret.op # "SearchContacts"
    /\ \E k \in 0..MaxContacts, query \in SearchQueries :
          CallSearchContacts(ContactTable(k), query)

SpecContacts == Init /\ [][NextContacts]_vars

\* text ends in @g.us
EndsInGroupSuffix(text) ==
    /\ Len(text) >= 5
    /\ SubSeq(text, Len(text) - 4, Len(text)) = <<"@", "g", ".", "u", "s">>

\* C15: for every query and every contact table, SearchContacts returns at
\* most 50 contacts and none of them has an address ending in @g.us.
C15_NoGroupAtMostFifty ==
    ret.op = "SearchContacts" =>
        /\ Len(ret.out.contacts) <= 50
        /\ \A i \in 1..Len(ret.out.contacts) :
              ~EndsInGroupSuffix(ret.out.contacts[i].JID)

\* C15 witness: the table holds more than 50 matching contacts that are no
\* groups, and matching group addresses as well; 50 are returned
C15_Witness ==
    /\ ret.op = "SearchContacts"
    /\ ret.out.err = "nil"
    /\ Len(ret.out.contacts) = 50
    /\ Cardinality({r \in ret.in.table :
                      ~EndsInGroupSuffix(r.their_jid)}) > 50
    /\ ret.in.query = <<"a">>
    /\ \E r \in ret.in.table :
          EndsInGroupSuffix(r.their_jid) /\ r.first_name = <<"a">>

----------------------------------------------------------------------------
(* The container analyzer and the send path *)

\* n in four bytes, little-endian
Bytes4(n) ==
    <<n % 256, (n \div 256) % 256, (n \div 65536) % 256, n \div 16777216>>

Zeros(n) == [j \in 1..n |-> 0]

\* an Ogg page: capture pattern, version, flags, granule position (8),
\* serial (4), sequence number (4), checksum (4), segment count, segment
\* table, payload
PageBytes(granule, seq, segs, payload) ==
    OggS \o <<0, 0>> \o Bytes4(granule) \o Zeros(4) \o Zeros(4) \o Bytes4(seq)
      \o Zeros(4) \o <<Len(segs)>> \o segs \o payload

\* a payload with the marker, ten more bytes, and the bytes the analyzer
\* reads as pre-skip and sample rate
HeadPayload(preSkip, rate) ==
    OpusHead \o <<1, 1>> \o Zeros(8) \o <<preSkip % 256, preSkip \div 256>>
      \o Bytes4(rate)

\* the first pages: none, a header page for each pre-skip and sample rate,
\* one whose payload stops before the sample rate, and one whose segment
\* table promises more bytes than the buffer has
HeadPages ==
    {<<>>}
      \cup {PageBytes(0, 0, <<24>>, HeadPayload(p, r)) :
              p \in {0, 5, 312}, r \in {0, 1, 48000}}
      \cup {PageBytes(0, 0, <<20>>, SubSeq(HeadPayload(5, 48000), 1, 20)),
            PageBytes(3, 1, <<200>>, <<7>>)}

\* the granule positions of the audio page
Granules == {0, 3, 48001, 14400001}

\* buffers that carry the signature
OggBuffers ==
    {Buffer(h \o PageBytes(g, 2, <<1>>, <<7>>), Len(h) + 29 + extra) :
        h \in HeadPages, g \in Granules, extra \in {0, 1, 512}}
      \cup {Buffer(PageBytes(0, 2, [j \in 1..8 |-> 255], Zeros(2040)), 2076),
            Buffer(OggS, 4)}

\* buffers that do not
OtherBuffers ==
    {Buffer(b, Len(b)) :
        b \in {<<>>, SubSeq(OggS, 1, 3), <<79, 103, 103, 84>> \o Zeros(30),
               <<1>> \o PageBytes(3, 2, <<1>>, <<7>>)}}

\* the media files of the send path
SendFiles ==
    {Buffer(PageBytes(48001, 2, <<1>>, <<7>>), 29),
     Buffer(<<1>> \o PageBytes(3, 2, <<1>>, <<7>>), 30)}

NextOgg ==
    /\ ret.op = "NewMessageStore"
    /\ \/ \E data \in OggBuffers \cup OtherBuffers : CallAnalyzeOggOpus(data)
       \/ \E connected \in BOOLEAN, uploaded \in BOOLEAN,
             delivered \in BOOLEAN, fileExt \in {"ogg", "jpg", "pdf"},
             data \in SendFiles :
             CallSendWhatsAppMessage(connected, uploaded, delivered, fileExt,
                                     data)

SpecOgg == Init /\ [][NextOgg]_vars

\* C16: for every buffer that analyzeOggOpus accepts, the duration is in
\* [1, 300], also when the last granule is smaller than the pre-skip, when
\* the sample rate read from the header is 0 and when no granule is found,
\* and the waveform has exactly 64 bytes, each in [0, 100].
C16_DurationAndWaveformBounds ==
    (ret.op = "analyzeOggOpus" /\ ret.out.err = "nil") =>
        /\ ret.out.duration \in 1..300
        /\ Len(ret.out.waveform) = 64
        /\ \A i \in 1..64 : ret.out.waveform[i] \in 0..100

\* what the page loop found in the buffer of the last call
Scanned == ScanPages(ret.in.data, 0, ScanStart)

\* C16 witness: an accepted buffer whose last granule is smaller than the
\* pre-skip, whose duration was above 300 before the clamp, and whose
\* waveform has a sample at each end of the range
C16_Witness ==
    /\ ret.op = "analyzeOggOpus"
    /\ ret.out.err = "nil"
    /\ Scanned.lastGranule > 0
    /\ Scanned.lastGranule < Scanned.preSkip
    /\ ret.out.raw > 300
    /\ ret.out.duration = 300
    /\ \E i, j \in 1..64 :
          ret.out.waveform[i] = 0 /\ ret.out.waveform[j] = 100

\* C17: for every buffer that does not start with the four bytes OggS,
\* buffers shorter than four bytes included, analyzeOggOpus returns a
\* ParseError with duration 0 and no waveform.
C17_NoSignatureIsParseError ==
    (ret.op = "analyzeOggOpus"
       /\ (Len(ret.in.data.bytes) < 4
             \/ SubSeq(ret.in.data.bytes, 1, 4) # <<79, 103, 103, 83>>)) =>
        /\ ret.out.err = "ParseError"
        /\ ret.out.duration = 0
        /\ ret.out.waveform = <<>>

\* C17 witness: a buffer that holds a whole page, one byte late, was refused
C17_Witness ==
    /\ ret.op = "analyzeOggOpus"
    /\ ret.out.err = "ParseError"
    /\ Len(ret.in.data.bytes) > 4
    /\ SubSeq(ret.in.data.bytes, 2, 5) = <<79, 103, 103, 83>>

\* C18 as stated: when analyzeOggOpus returns a ParseError for an audio
\* payload on the send path, sendWhatsAppMessage sends the payload as a
\* document instead of failing the send.
C18_ParseErrorFallsBack ==
    (ret.op = "sendWhatsAppMessage"
       /\ ret.in.connected /\ ret.in.uploaded /\ ret.in.delivered
       /\ ret.in.fileExt = "ogg"
       /\ \E r \in analyzeOggOpus(ret.in.data) : r.err = "ParseError") =>
        /\ ret.out.ok
        /\ ret.out.kind = "document"

\* C19 as stated: when a non-zero granule position was found, the duration
\* before the clamp is ceil((lastGranule - preSkip) / sampleRate) over the
\* integers (sample rate 48000 and pre-skip 0 without a header); when none
\* was found it is floor(byteLength / 2000).
C19_DurationFormula ==
    (ret.op = "analyzeOggOpus" /\ ret.out.err = "nil") =>
        IF Scanned.lastGranule > 0
        THEN /\ Scanned.sampleRate > 0
             /\ (ret.out.raw - 1) * Scanned.sampleRate
                  < Scanned.lastGranule - Scanned.preSkip
             /\ Scanned.lastGranule - Scanned.preSkip
                  <= ret.out.raw * Scanned.sampleRate
             /\ ~Scanned.foundOpusHead =>
                   Scanned.sampleRate = 48000 /\ Scanned.preSkip = 0
        ELSE ret.out.raw = Len(ret.in.data.bytes) \div 2000

----------------------------------------------------------------------------
(* The chat name chosen in a history sync *)

\* one conversation of either chat, with and without embedded names, holding
\* one message
NameEvents ==
    {<<Conversation(TRUE, jid, nm[1], nm[2],
                    <<HistoryMessage(TRUE, FALSE, "", "m1", 1, TextMessage)>>)>> :
        jid \in ChatJIDs,
        nm \in {<<"", "">>, <<"Disp", "Conv">>, <<"", "Conv">>}}

NextNames ==
    \/ \E jid \in ChatJIDs, name \in Names, t \in Times :
          CallStoreChat(jid, name, t)
    \/ \E convs \in NameEvents, client \in Clients :
          EventHistorySync(convs, client, MaxRows)

SpecNames == Init /\ [][NextNames]_vars

\* the name stored for the chat in the table chs, "" when there is none
StoredName(chs, jid) ==
    IF \E c \in chs : c.jid = jid
    THEN (CHOOSE c \in chs : c.jid = jid).name
    ELSE ""

\* C20 as stated: for a direct and for a multi-party chat address, the name
\* a history sync gives the chat is (1) the non-empty name already stored,
\* else (2) the display name embedded in the conversation, else (3) the
\* answer of the protocol client (group info for multi-party addresses, the
\* contact list otherwise), else (4) a name made of the address.
C20_NamePrecedence ==
    [][(ret'.op = "handleHistorySync"
          /\ Len(ret'.in.conversations) = 1) =>
         LET conv == ret'.in.conversations[1]
             stored == StoredName(chats, conv.ID)
             embedded == IF conv.DisplayName # "" THEN conv.DisplayName
                         ELSE conv.Name
             looked == IF conv.ID.Server = "g.us"
                       THEN ret'.in.client.GroupInfoName
                       ELSE ret'.in.client.ContactFullName
             chosen == StoredName(chats', conv.ID)
         IN  IF stored # "" THEN chosen = stored
             ELSE IF embedded # "" THEN chosen = embedded
             ELSE IF looked # "" THEN chosen = looked
             ELSE chosen \in {conv.ID.User, GroupLabel(conv.ID.User)}]_vars

----------------------------------------------------------------------------
(* The chat time and the senders a history sync stores *)

\* the keys of the history messages: none, from the contact with and without
\* a participant, from the own user
HistoryKeys ==
    {<<FALSE, FALSE, "">>, <<TRUE, FALSE, "">>, <<TRUE, FALSE, "p1">>,
     <<TRUE, TRUE, "p1">>}

\* conversations of one or two text messages, with every timestamp (0: none)
\* in either position
TimedConversations ==
    {<<Conversation(TRUE, jid, "", "", hms)>> :
        jid \in ChatJIDs,
        hms \in {<<HistoryMessage(k[1], k[2], k[3], "m1", t, TextMessage)>> :
                    k \in HistoryKeys, t \in 0..MaxNow}
                \cup {<<HistoryMessage(TRUE, FALSE, "", "m1", t1, TextMessage),
                        HistoryMessage(TRUE, FALSE, "", "m2", t2, TextMessage)>> :
                         t1 \in 0..MaxNow, t2 \in 0..MaxNow}}

NextHistory ==
    \E convs \in TimedConversations, client \in Clients :
       EventHistorySync(convs, client, MaxRows)

SpecHistory == Init /\ [][NextHistory]_vars

\* the timestamps the messages of a conversation carry
TimestampsOf(conv) ==
    {conv.Messages[i].MessageTimestamp : i \in 1..Len(conv.Messages)} \ {0}

Greatest(S) == CHOOSE x \in S : \A y \in S : y <= x

\* C21 as stated: a history-sync conversation that is persisted leaves the
\* chat row with the greatest message timestamp of the conversation as its
\* last_message_time, whatever the order of the messages; a conversation
\* none of whose messages carries a timestamp changes neither table.
C21_LastMessageTimeIsGreatest ==
    [][(ret'.op = "handleHistorySync"
          /\ Len(ret'.in.conversations) = 1) =>
         LET conv == ret'.in.conversations[1]
         IN  IF TimestampsOf(conv) = {}
             THEN chats' = chats /\ messages' = messages
             ELSE (chats' # chats \/ messages' # messages) =>
                     \E c \in chats' :
                        /\ c.jid = conv.ID
                        /\ c.last_message_time = Greatest(TimestampsOf(conv))]_vars

\* C22 as stated: the sender stored for a history message is the own user
\* when the message is from self, the key's participant when the chat
\* address is multi-party and the message is not from self, and the chat
\* address in every other case (a direct chat whose key carries a
\* participant and a message with no key included).
C22_HistorySender ==
    [][(ret'.op = "handleHistorySync"
          /\ Len(ret'.in.conversations) = 1
          /\ Len(ret'.in.conversations[1].Messages) = 1) =>
         LET conv == ret'.in.conversations[1]
             hm == conv.Messages[1]
             expected ==
                IF hm.hasKey /\ hm.FromMe THEN ret'.in.client.OwnUser
                ELSE IF conv.ID.Server = "g.us" /\ hm.hasKey
                        /\ hm.Participant # ""
                THEN hm.Participant
                ELSE conv.ID.User
         IN  hm.MessageTimestamp # 0 =>
                \E r \in messages' :
                   /\ r.chat_jid = conv.ID
                   /\ r.id = (IF hm.hasKey THEN hm.ID ELSE "")
                   /\ r.sender = expected]_vars

----------------------------------------------------------------------------
(* The frame of StoreMediaInfo *)

\* the columns StoreMediaInfo does not write
KeptColumns(r) ==
    <<r.id, r.chat_jid, r.sender, r.content, r.timestamp, r.is_from_me,
      r.media_type, r.filename>>

\* C23: StoreMediaInfo(id, chatJID, ..) writes url, media_key, file_sha256,
\* file_enc_sha256 and file_length of the row with that (id, chat_jid) and
\* nothing else: the other columns of that row and every other row stay as
\* they were, no row is created or removed, and the chats table is left
\* alone.
C23_MediaInfoFrame ==
    [][ret'.op = "StoreMediaInfo" =>
         /\ chats' = chats
         /\ Cardinality(messages') = Cardinality(messages)
         /\ \A r \in messages :
               IF r.id = ret'.in.id /\ r.chat_jid = ret'.in.chatJID
               THEN \E n \in messages' :
                       /\ KeptColumns(n) = KeptColumns(r)
                       /\ n.url = ret'.in.part.URL
                       /\ n.media_key = ret'.in.part.MediaKey
                       /\ n.file_sha256 = ret'.in.part.FileSHA256
                       /\ n.file_enc_sha256 = ret'.in.part.FileEncSHA256
                       /\ n.file_length = ret'.in.part.FileLength
               ELSE r \in messages'
         /\ (\A r \in messages :
                ~(r.id = ret'.in.id /\ r.chat_jid = ret'.in.chatJID)) =>
               messages' = messages]_vars

\* C23 witness: the call has rewritten the media columns of a row that has
\* a media type and a filename, while the other chat holds a row with the
\* same id that kept its own
C23_Witness ==
    /\ ret.op = "StoreMediaInfo"
    /\ \E r \in messages :
          /\ r.id = ret.in.id /\ r.chat_jid = ret.in.chatJID
          /\ r.url = ret.in.part.URL
          /\ r.media_type # ""
          /\ r.filename # NoFilename
    /\ \E r \in messages :
          /\ r.id = ret.in.id /\ r.chat_jid # ret.in.chatJID
          /\ r.url # ret.in.part.URL

----------------------------------------------------------------------------
(* The placeholders of every query *)

QueryOps ==
    {"ListMessages", "ListChats", "GetMessageContext", "GetContactChats",
     "GetChat"}

\* the filters of the ListMessages calls: each set or not
FilterParams ==
    [After : {Empty, RFC3339(1)}, Before : {Empty, RFC3339(MaxTime)},
     SenderPhoneNumber : {"", "u1"}, ChatJid : {NoJID, GroupJID},
     Query : {Empty, <<"a">>}, Limit : {MaxCount}, Page : {0},
     IncludeContext : {FALSE}, ContextBefore : {1}, ContextAfter : {1}]

NextDialect ==
    /\ ret.op \notin QueryOps
    /\ \/ \E e \in LiveEvents, client \in Clients :
             EventMessage(e[1], e[2], client, MaxRows)
       \/ \E m \in QueryInputs : CallStoreMessage(m, MaxRows)
       \/ \E s \in FilterParams : CallListMessages(s)
       \/ \E q \in {Empty, <<"a">>}, limit \in {0, 1}, sortBy \in {"", "name"} :
             CallListChats(q, limit, 0, sortBy)
       \/ \E id \in {"m1"}, before \in Counts, after \in Counts :
             CallGetMessageContext(id, before, after)
       \/ \E jid \in ContactArgs : CallGetContactChats(jid, MaxCount, 0)
       \/ \E jid \in ChatJIDs : CallGetChat(jid, TRUE)

SpecDialect == Init /\ [][NextDialect]_vars

\* the queries the last call built
BuiltQueries ==
    CASE ret.op = "ListMessages" -> {ListMessagesQuery(ret.in)}
      [] ret.op = "ListChats" -> {ListChatsQuery(ret.in.q)}
      [] ret.op = "GetMessageContext" -> GetMessageContextQueries
      [] ret.op = "GetContactChats" -> {GetContactChatsQuery}
      [] ret.op = "GetChat" -> {GetChatQuery}
      [] ret.op = "handleMessage" -> {GetChatNameQuery}
      [] OTHER -> {}

\* C24 as stated: every query built by ListMessages, ListChats,
\* GetMessageContext, GetContactChats, GetChat and GetChatName with k bound
\* arguments has, in the Postgres dialect, exactly the placeholders $1..$k,
\* each at the position of its argument, and in the SQLite dialect exactly k
\* placeholders ?, with and without the search filter.
C24_PlaceholdersMatchArguments ==
    \A q \in BuiltQueries :
        /\ Len(q.marks) = Len(q.args)
        /\ \A i \in 1..Len(q.marks) :
              q.marks[i] = (IF isPostgres THEN i ELSE 0)

----------------------------------------------------------------------------
(* The indices the container analyzer reads *)

\* C25 as stated: for every buffer that starts with "OggS" (also one with a
\* page whose segment table sums past the end of the buffer, a truncated
\* final page, or an "OpusHead" marker within 24 bytes of the end of its
\* page) analyzeOggOpus returns an error or a (duration, waveform) result
\* and reads no index outside the buffer or outside the page slice.
C25_ReadsStayInside ==
    (ret.op = "analyzeOggOpus" /\ HasSignature(ret.in.data)) =>
        /\ ret.out.err \in {"nil", "ParseError"}
        /\ ~ret.out.outside

----------------------------------------------------------------------------
(* The list of chats *)

NextChats ==
    /\ ret.op # "ListChats"
    /\ \/ \E jid \in ChatJIDs, name \in {"Alice", "Ab"}, t \in Times :
             CallStoreChat(jid, name, t)
       \/ \E m \in QueryInputs : CallStoreMessage(m, MaxRows)
       \/ \E q \in {Empty, <<"a">>, <<"1">>}, limit \in {0, 1}, page \in {0, 1},
             sortBy \in {"", "name"} :
             CallListChats(q, limit, page, sortBy)

SpecChats == Init /\ [][NextChats]_vars

\* the positions of the chat in the returned list
PositionsOf(list, jid) == {i \in 1..Len(list) : list[i].JID = jid}

\* C26 as stated: ListChats with the last-message enrichment returns each
\* chat at most once, also when two or more messages of the chat have a
\* timestamp equal to the chat's last_message_time, and returns a chat with
\* no message at that timestamp once with empty enrichment fields (checked
\* on the first page of calls whose page holds every chat).
C26_EachChatOnce ==
    (ret.op = "ListChats" /\ ret.in.limit = 0 /\ ret.in.page = 0) =>
        /\ ret.out.err = "nil"
        /\ \A c \in chats :
              /\ Cardinality(PositionsOf(ret.out.chats, c.jid)) <= 1
              /\ (WhereChats(c, ret.in.q)
                   /\ ~\E m \in messages :
                         /\ m.chat_jid = c.jid
                         /\ m.timestamp = c.last_message_time) =>
                    \E i \in PositionsOf(ret.out.chats, c.jid) :
                       /\ ret.out.chats[i].LastMessage = Empty
                       /\ ret.out.chats[i].LastSender = ""
                       /\ ~ret.out.chats[i].LastIsFromMe

----------------------------------------------------------------------------
(* The chat time after live events and history syncs *)

\* live events of two messages, early or late, with a text or with nothing
\* to store
FeedEvents ==
    {<<MessageInfo(jid, id, t, "u1"), msg>> :
        jid \in ChatJIDs, id \in {"m1", "m2"}, t \in {1, MaxTime},
        msg \in {TextMessage, EmptyMessage}}

NextFeed ==
    \/ \E e \in FeedEvents : EventMessage(e[1], e[2], Client("", ""), MaxRows)
    \/ \E convs \in HistoryEvents :
          EventHistorySync(convs, Client("", ""), MaxRows)

SpecFeed == Init /\ [][NextFeed]_vars

\* C27 as stated: after any sequence of live-message events and
\* history-sync batches, every chat that has a stored message has as its
\* last_message_time the greatest timestamp of the messages stored for it.
C27_ChatTimeIsGreatestStored ==
    \A c \in chats :
        LET stored == {m.timestamp : m \in {r \in messages :
                                               r.chat_jid = c.jid}}
        IN  stored # {} => c.last_message_time = Greatest(stored)

----------------------------------------------------------------------------
(* GetMessageContext while the event handler writes *)

\* live text messages of the group chat, observed at any time
ContextEvents ==
    {<<MessageInfo(GroupJID, id, t, "u1"), TextMessage>> :
        id \in {"m1", "m2"}, t \in 1..MaxTime}

\* the request handler and the event handler run side by side: an event can
\* be handled before, between and after the queries of a request
NextContext ==
    /\ ret.op # "GetMessageContext"
    /\ \/ \E e \in ContextEvents :
             EventMessage(e[1], e[2], Client("", ""), MaxRows)
       \/ \E id \in {"m1", "m0"}, before \in 1..MaxCount, after \in 1..MaxCount :
             ContextTarget(id, before, after)
       \/ ContextBefore
       \/ ContextAfter

SpecContext == Init /\ [][NextContext]_vars

\* the ids of the entries of a list
IDsOf(list) == {list[i].ID : i \in 1..Len(list)}

\* C28 as stated: in every GetMessageContext result no message appears in
\* both the before and the after sequence and the anchor appears in
\* neither, also when the event handler upserts messages of the chat
\* between the queries.
C28_DisjointByMessage ==
    (ret.op = "GetMessageContext" /\ ret.out.err = "nil") =>
        /\ IDsOf(ret.out.Before) \cap IDsOf(ret.out.After) = {}
        /\ ret.out.Message.ID \notin IDsOf(ret.out.Before)
        /\ ret.out.Message.ID \notin IDsOf(ret.out.After)

\* C28, amended: in every GetMessageContext result every before entry
\* carries a timestamp strictly below the anchor's and every after entry one
\* strictly above it, and neither sequence names a message twice; so no
\* entry (message and timestamp as read) is in both sequences or equals the
\* anchor, also when the event handler upserts between the queries.
C28_DisjointByTimestamp ==
    (ret.op = "GetMessageContext" /\ ret.out.err = "nil") =>
        /\ \A i \in 1..Len(ret.out.Before) :
              ret.out.Before[i].Timestamp < ret.out.Message.Timestamp
        /\ \A i \in 1..Len(ret.out.After) :
              ret.out.After[i].Timestamp > ret.out.Message.Timestamp
        /\ Cardinality(IDsOf(ret.out.Before)) = Len(ret.out.Before)
        /\ Cardinality(IDsOf(ret.out.After)) = Len(ret.out.After)

\* C28 witness: a result whose before and after sequences name the same
\* message, re-observed with another timestamp between the two queries
C28_Witness ==
    /\ ret.op = "GetMessageContext"
    /\ ret.out.err = "nil"
    /\ IDsOf(ret.out.Before) \cap IDsOf(ret.out.After) # {}

----------------------------------------------------------------------------
(* Start-up: the dialect flag and the connection *)

\* a variable the environment does not set
Unset == "(unset)"

\* the environments the process is started in: IS_POSTGRES as a value or
\* unset, each POSTGRES_ variable set (to some value) or not
Environments ==
    [IS_POSTGRES : {Unset, "true", "TRUE", "false"},
     POSTGRES_USER : BOOLEAN, POSTGRES_PASS : BOOLEAN,
     POSTGRES_HOST : BOOLEAN, POSTGRES_PORT : BOOLEAN]

\* strings.ToLower on the values of IS_POSTGRES
ToLower(val) == IF val = "TRUE" THEN "true" ELSE val

\* getEnv: an error when a POSTGRES_ variable is missing, else the value it
\* assigns to the package variable isPostgres and puts into the config
getEnv(env) ==
    IF ~(env.POSTGRES_USER /\ env.POSTGRES_PASS /\ env.POSTGRES_HOST
         /\ env.POSTGRES_PORT)
    THEN [err |-> "missing", IsPostgres |-> FALSE]
    ELSE [err |-> "nil",
          IsPostgres |-> ((IF env.IS_POSTGRES = Unset THEN "false"
                           ELSE env.IS_POSTGRES) = "true")]

\* openDatabase: the driver of the connection it opens
openDatabase(env) ==
    IF env.IS_POSTGRES # Unset /\ ToLower(env.IS_POSTGRES) = "true"
    THEN IF getEnv(env).err # "nil"
         THEN [err |-> "missing environment variable", driver |-> ""]
         ELSE [err |-> "nil", driver |-> "postgres"]
    ELSE [err |-> "nil", driver |-> "sqlite3"]

\* NewMessageStore: the connection and the type of the three blob columns
NewMessageStore(env) ==
    IF openDatabase(env).err # "nil"
    THEN [err |-> "failed to open message database", driver |-> "",
          blobType |-> ""]
    ELSE [err |-> "nil", driver |-> openDatabase(env).driver,
          blobType |-> IF env.IS_POSTGRES # Unset
                          /\ ToLower(env.IS_POSTGRES) = "true"
                       THEN "BYTEA" ELSE "BLOB"]

\* the process before main runs: var isPostgres = false
InitMain ==
    /\ isPostgres = FALSE
    /\ chats = {}
    /\ messages = {}
    /\ now = 1
    /\ pending = Idle
    /\ \E env \in Environments : ret = [op |-> "exec", in |-> env, out |-> <<>>]

\* main calls getEnv and returns when it fails; else it picks the dialect of
\* the protocol library's store from the config
MainGetEnv ==
    /\ ret.op = "exec"
    /\ IF getEnv(ret.in).err # "nil"
       THEN /\ ret' = [op |-> "exit", in |-> ret.in, out |-> <<>>]
            /\ isPostgres' = isPostgres
       ELSE /\ isPostgres' = getEnv(ret.in).IsPostgres
            /\ ret' = [op |-> "getEnv", in |-> ret.in,
                       out |-> [dialect |-> IF getEnv(ret.in).IsPostgres
                                            THEN "postgres" ELSE "sqlite3"]]
    /\ UNCHANGED <<chats, messages, now, pending>>

\* main calls NewMessageStore; openDatabase calls getEnv once more on its
\* Postgres path
MainNewMessageStore ==
    /\ ret.op = "getEnv"
    /\ isPostgres' = IF ret.in.IS_POSTGRES # Unset
                        /\ ToLower(ret.in.IS_POSTGRES) = "true"
                     THEN getEnv(ret.in).IsPostgres ELSE isPostgres
    /\ ret' = IF NewMessageStore(ret.in).err # "nil"
              THEN [op |-> "exit", in |-> ret.in, out |-> <<>>]
              ELSE [op |-> "NewMessageStore", in |-> ret.in,
                    out |-> NewMessageStore(ret.in)]
    /\ UNCHANGED <<chats, messages, now, pending>>

\* StoreChat on the connection that was opened: the flag is read, never
\* written, and the INSERT OR REPLACE it selects when it is false is a
\* statement a Postgres connection rejects
UseStore ==
    /\ ret.op = "NewMessageStore"
    /\ \E jid \in ChatJIDs, t \in Times :
          chats' = IF isPostgres = (ret.out.driver = "postgres")
                   THEN StoreChat(chats, jid, "Alice", t)
                   ELSE chats
    /\ UNCHANGED <<isPostgres, messages, now, pending, ret>>

NextMain == MainGetEnv \/ MainNewMessageStore \/ UseStore

SpecMain == InitMain /\ [][NextMain]_vars

\* C29 as stated: for IS_POSTGRES unset, "true", "TRUE" and "false" the
\* flag isPostgres agrees, once the store is constructed, with the driver of
\* the connection openDatabase opened and with the blob column type
\* NewMessageStore chose, and it does not change afterwards.
C29_FlagAgreesWithConnection ==
    ret.op = "NewMessageStore" =>
        /\ isPostgres = (ret.out.driver = "postgres")
        /\ isPostgres = (ret.out.blobType = "BYTEA")

----------------------------------------------------------------------------
(* The local paths of media *)

\* C30 as stated: two distinct media messages stored in the same chat never
\* resolve to the same local file path (so downloadMedia never takes the
\* file of one for the media of the other), also when both are of the same
\* media type and observed within the same second.
C30_DistinctLocalPaths ==
    \A r1, r2 \in messages :
        (r1 # r2 /\ r1.chat_jid = r2.chat_jid
         /\ r1.media_type # "" /\ r2.media_type # "") =>
            LocalPath(r1.chat_jid, r1.filename)
              # LocalPath(r2.chat_jid, r2.filename)

====
